---------------------------- MODULE Spec2Model ----------------------------
(***************************************************************************)
(* Compound-interest calculator (BRAGAS002/Compound-React).                *)
(*                                                                         *)
(* The repository holds three implementations of the calculation engine:   *)
(*   "utils"   src/src/utils/calculatorUtils.ts lines 1-358   (timeUnit,   *)
(*             discrete frequencies only)                                  *)
(*   "utils2"  src/src/utils/calculatorUtils.ts lines 360-669 (adds        *)
(*             'continuously', has no timeUnit)                            *)
(*   "vanilla" src/vanilla-clone/main.js                                   *)
(*                                                                         *)
(* JavaScript numbers are modelled exactly: a finite number is a finite    *)
(* sum of terms q * e^x with q, x rational (x = 0 for a plain rational),   *)
(* beside NaN, +Infinity and -Infinity, and the values Math.log returns    *)
(* are kept as q * ln(a).  Floating-point rounding is not modelled.        *)
(***************************************************************************)
EXTENDS Integers, Sequences, FiniteSets, TLC

(***************************************************************************)
(* Rationals: <<n, d>> with d > 0 and gcd(|n|, d) = 1.                     *)
(***************************************************************************)
Abs(i) == IF i < 0 THEN -i ELSE i

RECURSIVE Gcd(_, _)
Gcd(a, b) == IF b = 0 THEN a ELSE Gcd(b, a % b)

Rat(n, d) ==
  LET s == IF d < 0 THEN -1 ELSE 1
      g == Gcd(Abs(n), Abs(d))
  IN  <<(s * n) \div g, (s * d) \div g>>

RInt(i) == <<i, 1>>
RZero == <<0, 1>>
ROne == <<1, 1>>

RNeg(a) == <<-a[1], a[2]>>

RAdd(a, b) ==
  LET g == Gcd(a[2], b[2])
  IN  Rat(a[1] * (b[2] \div g) + b[1] * (a[2] \div g), (a[2] \div g) * b[2])

RSub(a, b) == RAdd(a, RNeg(b))

RMul(a, b) ==
  LET g1 == Gcd(Abs(a[1]), b[2])
      g2 == Gcd(Abs(b[1]), a[2])
  IN  IF a[1] = 0 \/ b[1] = 0 THEN RZero
      ELSE <<(a[1] \div g1) * (b[1] \div g2), (a[2] \div g2) * (b[2] \div g1)>>

RInv(a) == IF a[1] < 0 THEN <<-a[2], -a[1]>> ELSE <<a[2], a[1]>>

RDiv(a, b) == RMul(a, RInv(b))

RSign(a) == IF a[1] > 0 THEN 1 ELSE IF a[1] < 0 THEN -1 ELSE 0

RLeq(a, b) == RSign(RSub(b, a)) >= 0

RIsInt(a) == a[2] = 1

\* a^k for an integer k >= 0
RECURSIVE RPowNat(_, _)
RPowNat(a, k) == IF k = 0 THEN ROne ELSE RMul(a, RPowNat(a, k - 1))

\* acc * i^k for naturals, stopping as soon as the product exceeds lim
RECURSIVE IPowAcc(_, _, _, _)
IPowAcc(i, k, acc, lim) ==
  IF k = 0 \/ acc > lim \/ i = 1 THEN acc
  ELSE IF i = 0 THEN 0
  ELSE IPowAcc(i, k - 1, acc * i, lim)

IPowCap(i, k, lim) == IPowAcc(i, k, 1, lim)

\* the least natural r >= i with r^k >= m
RECURSIVE IRootFrom(_, _, _)
IRootFrom(i, m, k) == IF IPowCap(i, k, m) >= m THEN i ELSE IRootFrom(i + 1, m, k)

\* the exact k-th root of the natural m, or -1 when m is no k-th power
IRoot(m, k) ==
  IF k = 1 \/ m <= 1 THEN m
  ELSE LET r == IRootFrom(1, m, k) IN IF IPowCap(r, k, m) = m THEN r ELSE -1

\* a > 0 has a rational k-th root
RootExact(a, k) == IRoot(a[1], k) # -1 /\ IRoot(a[2], k) # -1

RRoot(a, k) == <<IRoot(a[1], k), IRoot(a[2], k)>>

\* a value no case of the model produces: evaluating it stops the check
Unmodelled == CHOOSE x \in {} : TRUE

(***************************************************************************)
(* JavaScript numbers.                                                     *)
(*   [k |-> "fin", t |-> T]  the sum of q * e^x over the terms <<x, q>>    *)
(*                           of T (distinct x, q # 0); a rational r is     *)
(*                           {<<0, r>>} and zero is {}                     *)
(*   [k |-> "ln",  t |-> {<<a, q>>}]  q * ln(a), a > 0 rational, a # 1     *)
(*   [k |-> "nan" | "+inf" | "-inf", t |-> {}]                             *)
(***************************************************************************)
NaN == [k |-> "nan", t |-> {}]
PosInf == [k |-> "+inf", t |-> {}]
NegInf == [k |-> "-inf", t |-> {}]
Fin(t) == [k |-> "fin", t |-> t]
Num(r) == Fin(IF r = RZero THEN {} ELSE {<<RZero, r>>})
NInt(i) == Num(RInt(i))
Zero == NInt(0)
One == NInt(1)

IsNaN(a) == a.k = "nan"
IsInf(a) == a.k \in {"+inf", "-inf"}
IsFinite(a) == a.k \in {"fin", "ln"}
IsRat(a) == a.k = "fin" /\ \A e \in a.t : e[1] = RZero
AsRat(a) == IF a.t = {} THEN RZero ELSE (CHOOSE e \in a.t : TRUE)[2]

Coef(t, x) == IF \E e \in t : e[1] = x THEN (CHOOSE e \in t : e[1] = x)[2] ELSE RZero

TAdd(s, t) ==
  LET xs == {e[1] : e \in s \cup t}
  IN  {e \in {<<x, RAdd(Coef(s, x), Coef(t, x))>> : x \in xs} : e[2] # RZero}

TNeg(s) == {<<e[1], RNeg(e[2])>> : e \in s}

TMul(s, t) ==
  IF Cardinality(s) <= 1 \/ Cardinality(t) <= 1
  THEN {<<RAdd(a[1], b[1]), RMul(a[2], b[2])>> : a \in s, b \in t}
  ELSE Unmodelled

\* the sign of a finite sum of exponential terms (e^x is increasing in x)
TSign(t) ==
  IF t = {} THEN 0
  ELSE IF \A e \in t : RSign(e[2]) > 0 THEN 1
  ELSE IF \A e \in t : RSign(e[2]) < 0 THEN -1
  ELSE IF Cardinality(t) = 2
  THEN LET p == CHOOSE e \in t : RSign(e[2]) > 0
           m == CHOOSE e \in t : RSign(e[2]) < 0
       IN  IF RLeq(m[1], p[1]) /\ RLeq(RNeg(m[2]), p[2]) THEN 1
           ELSE IF RLeq(p[1], m[1]) /\ RLeq(p[2], RNeg(m[2])) THEN -1
           ELSE Unmodelled
  ELSE Unmodelled

LnSign(t) ==
  LET e == CHOOSE x \in t : TRUE
  IN  RSign(e[2]) * (IF RLeq(e[1], ROne) THEN -1 ELSE 1)

Sign(a) ==
  CASE a.k = "fin" -> TSign(a.t)
    [] a.k = "ln" -> LnSign(a.t)
    [] a.k = "+inf" -> 1
    [] a.k = "-inf" -> -1

InfOf(s) == IF s > 0 THEN PosInf ELSE NegInf

NNeg(a) ==
  CASE a.k = "nan" -> NaN
    [] a.k = "+inf" -> NegInf
    [] a.k = "-inf" -> PosInf
    [] OTHER -> [k |-> a.k, t |-> TNeg(a.t)]

\* a + b
NAdd(a, b) ==
  CASE IsNaN(a) \/ IsNaN(b) -> NaN
    [] IsInf(a) /\ IsInf(b) -> IF a = b THEN a ELSE NaN
    [] IsInf(a) -> a
    [] IsInf(b) -> b
    [] a.k = "fin" /\ b.k = "fin" -> Fin(TAdd(a.t, b.t))
    [] OTHER -> Unmodelled

\* a - b
NSub(a, b) == NAdd(a, NNeg(b))

\* a * b
NMul(a, b) ==
  CASE IsNaN(a) \/ IsNaN(b) -> NaN
    [] IsInf(a) \/ IsInf(b) ->
         IF Sign(a) = 0 \/ Sign(b) = 0 THEN NaN ELSE InfOf(Sign(a) * Sign(b))
    [] a.k = "fin" /\ b.k = "fin" -> Fin(TMul(a.t, b.t))
    [] a.k = "ln" /\ IsRat(b) ->
         IF b.t = {} THEN Zero
         ELSE [k |-> "ln", t |-> {<<e[1], RMul(e[2], AsRat(b))>> : e \in a.t}]
    [] IsRat(a) /\ b.k = "ln" ->
         IF a.t = {} THEN Zero
         ELSE [k |-> "ln", t |-> {<<e[1], RMul(e[2], AsRat(a))>> : e \in b.t}]
    [] OTHER -> Unmodelled

\* the exponent e with b^e = a, searched among the fractions m/k with
\* |m|, k <= MaxLog; a, b > 0 and b # 1
MaxLog == 4

LogCandidates(a, b) ==
  {e \in {Rat(m, k) : m \in (-MaxLog)..MaxLog, k \in 1..MaxLog} :
     IF e[1] >= 0
     THEN RPowNat(b, e[1]) = RPowNat(a, e[2])
     ELSE RMul(RPowNat(b, -e[1]), RPowNat(a, e[2])) = ROne}

LogExact(a, b) == LogCandidates(a, b) # {}

RLogBase(a, b) == CHOOSE e \in LogCandidates(a, b) : TRUE

\* a / b
NDiv(a, b) ==
  CASE IsNaN(a) \/ IsNaN(b) -> NaN
    [] IsInf(a) /\ IsInf(b) -> NaN
    [] IsInf(a) -> InfOf(Sign(a) * (IF Sign(b) < 0 THEN -1 ELSE 1))
    [] IsInf(b) -> Zero
    [] Sign(b) = 0 -> IF Sign(a) = 0 THEN NaN ELSE InfOf(Sign(a))
    [] a.k = "fin" /\ b.k = "fin" ->
         IF Cardinality(b.t) = 1
         THEN LET d == CHOOSE e \in b.t : TRUE
              IN  Fin(TMul(a.t, {<<RNeg(d[1]), RInv(d[2])>>}))
         ELSE Unmodelled
    [] a.k = "ln" /\ IsRat(b) ->
         [k |-> "ln", t |-> {<<e[1], RDiv(e[2], AsRat(b))>> : e \in a.t}]
    [] a.k = "ln" /\ b.k = "ln" ->
         LET x == CHOOSE e \in a.t : TRUE
             y == CHOOSE e \in b.t : TRUE
         IN  Num(RMul(RDiv(x[2], y[2]), RLogBase(x[1], y[1])))
    [] a.k = "fin" /\ b.k = "ln" -> IF a.t = {} THEN Zero ELSE Unmodelled
    [] OTHER -> Unmodelled

\* JavaScript ===, <= and >= on numbers (false whenever an operand is NaN)
NEq(a, b) == ~IsNaN(a) /\ ~IsNaN(b) /\ a = b

NLeq(a, b) ==
  CASE IsNaN(a) \/ IsNaN(b) -> FALSE
    [] a = b -> TRUE
    [] a.k = "-inf" \/ b.k = "+inf" -> TRUE
    [] a.k = "+inf" \/ b.k = "-inf" -> FALSE
    [] OTHER -> Sign(NSub(b, a)) >= 0

NGeq(a, b) == NLeq(b, a)

\* Math.exp
MathExp(x) ==
  CASE IsNaN(x) -> NaN
    [] x.k = "+inf" -> PosInf
    [] x.k = "-inf" -> Zero
    [] IsRat(x) -> Fin({<<AsRat(x), ROne>>})
    [] OTHER -> Unmodelled

\* Math.log
MathLog(x) ==
  CASE IsNaN(x) -> NaN
    [] x.k = "+inf" -> PosInf
    [] x.k = "-inf" -> NaN
    [] IsRat(x) ->
         IF RSign(AsRat(x)) < 0 THEN NaN
         ELSE IF RSign(AsRat(x)) = 0 THEN NegInf
         ELSE IF AsRat(x) = ROne THEN Zero
         ELSE [k |-> "ln", t |-> {<<AsRat(x), ROne>>}]
    [] OTHER -> Unmodelled

\* b^e for rationals b > 0 and e whose root is exact
RPow(b, e) ==
  LET r == RRoot(b, e[2])
      p == RPowNat(r, Abs(e[1]))
  IN  IF e[1] < 0 THEN RInv(p) ELSE p

\* b^e is beyond Number.MAX_VALUE, which is below 2^1024: Math.pow returns
\* +Infinity
Overflows(b, e) == RLeq(RInt(2), b) /\ RLeq(RInt(1024), e)

\* Math.pow(b, e) is modelled on these arguments
PowExact(b, e) ==
  \/ IsNaN(b) \/ IsNaN(e) \/ IsInf(b) \/ IsInf(e)
  \/ /\ IsRat(b) /\ IsRat(e)
     /\ RSign(AsRat(b)) <= 0 \/ AsRat(b) = ROne \/ RootExact(AsRat(b), AsRat(e)[2])

\* Math.pow
MathPow(b, e) ==
  CASE IsNaN(e) -> NaN
    [] e = Zero -> One
    [] IsNaN(b) -> NaN
    [] IsInf(e) ->
         LET m == IF IsInf(b) THEN 1
                  ELSE LET a == AsRat(b)
                           abs == IF RSign(a) < 0 THEN RNeg(a) ELSE a
                       IN  RSign(RSub(abs, ROne))
         IN  IF m = 0 THEN NaN
             ELSE IF (m > 0) = (e.k = "+inf") THEN PosInf ELSE Zero
    [] b.k = "+inf" -> IF Sign(e) > 0 THEN PosInf ELSE Zero
    [] b.k = "-inf" ->
         IF Sign(e) < 0 THEN Zero
         ELSE IF IsRat(e) /\ RIsInt(AsRat(e)) /\ AsRat(e)[1] % 2 = 1 THEN NegInf
         ELSE PosInf
    [] IsRat(b) /\ IsRat(e) ->
         LET a == AsRat(b)
             x == AsRat(e)
         IN  IF RSign(a) = 0 THEN (IF RSign(x) > 0 THEN Zero ELSE PosInf)
             ELSE IF a = ROne THEN One
             ELSE IF RSign(a) < 0
             THEN IF RIsInt(x)
                  THEN Num(IF x[1] < 0 THEN RInv(RPowNat(a, -x[1]))
                           ELSE RPowNat(a, x[1]))
                  ELSE NaN
             ELSE IF Overflows(a, x) THEN PosInf
             ELSE IF RootExact(a, x[2]) THEN Num(RPow(a, x)) ELSE Unmodelled
    [] OTHER -> Unmodelled

(***************************************************************************)
(* The calculation engine.                                                 *)
(* CalculationParams: [principal, rate, time : number,                     *)
(*                     timeUnit : "years" | "days", frequency : string]    *)
(* CalculationResult: [finalAmount, totalInterest : number,                *)
(*                     yearlyBreakdown : sequence of                       *)
(*                       [year : Nat, amount, interestEarned : number],    *)
(*                     formula : string, returns : BOOLEAN]                *)
(* returns is FALSE when the breakdown loop never ends (its bound is       *)
(* +Infinity); the other fields then hold what was computed before it.     *)
(***************************************************************************)
CompoundingFrequency ==
  {"annually", "semi-annually", "quarterly", "monthly", "weekly", "daily"}

CompoundingFrequency2 == CompoundingFrequency \cup {"continuously"}

\* utils: getFrequencyValue
getFrequencyValue(frequency) ==
  CASE frequency = "annually" -> NInt(1)
    [] frequency = "semi-annually" -> NInt(2)
    [] frequency = "quarterly" -> NInt(4)
    [] frequency = "monthly" -> NInt(12)
    [] frequency = "weekly" -> NInt(52)
    [] frequency = "daily" -> NInt(365)
    [] OTHER -> NInt(1)

\* utils2: getFrequencyValue
getFrequencyValue2(frequency) ==
  CASE frequency = "annually" -> NInt(1)
    [] frequency = "semi-annually" -> NInt(2)
    [] frequency = "quarterly" -> NInt(4)
    [] frequency = "monthly" -> NInt(12)
    [] frequency = "weekly" -> NInt(52)
    [] frequency = "daily" -> NInt(365)
    [] frequency = "continuously" -> PosInf
    [] OTHER -> NInt(1)

\* vanilla: getFrequencyNumber
getFrequencyNumber(frequency) ==
  CASE frequency = "annually" -> NInt(1)
    [] frequency = "semi-annually" -> NInt(2)
    [] frequency = "quarterly" -> NInt(4)
    [] frequency = "monthly" -> NInt(12)
    [] frequency = "weekly" -> NInt(52)
    [] frequency = "daily" -> NInt(365)
    [] OTHER -> NInt(1)

\* utils: getFormula(frequency, solveFor)
getFormula(frequency, solveFor) ==
  IF solveFor = "time" THEN "t = ln(A/P) / (n x ln(1 + r/n))"
  ELSE "CI = P(1 + r/n)^(nt) - P"

\* utils2: getFormula(frequency)
getFormula2(frequency) ==
  IF frequency = "continuously" THEN "A = P x e^(rt)" ELSE "A = P(1 + r/n)^(nt)"

\* vanilla: getFormula(params)
getFormulaVanilla(params) ==
  IF params.frequency = "continuously" THEN "A = P x e^(rt)"
  ELSE "A = P(1 + r/n)^(nt)"

\* timeUnit === 'days' ? time / 365 : time
TimeInYears(time, timeUnit) ==
  IF timeUnit = "days" THEN NDiv(time, NInt(365)) ELSE time

\* a slip of sign in the growth factor: 1 - (rate / 100) / n
CompoundShrinking(principal, rate, n, t) ==
  NMul(principal,
       MathPow(NSub(One, NDiv(NDiv(rate, NInt(100)), n)), NMul(n, t)))

\* principal * Math.pow(1 + (rate / 100) / n, n * t)
Compound(principal, rate, n, t) ==
  NMul(principal,
       MathPow(NAdd(One, NDiv(NDiv(rate, NInt(100)), n)), NMul(n, t)))

\* principal * Math.exp((rate / 100) * t)
Continuous(principal, rate, t) ==
  NMul(principal, MathExp(NMul(NDiv(rate, NInt(100)), t)))

Row(year, amount, interestEarned) ==
  [year |-> year, amount |-> amount, interestEarned |-> interestEarned]

\* the loop started at i = 0: one more iteration
LoopCountFromZero(bound) ==
  IF IsRat(bound) /\ RLeq(RZero, AsRat(bound))
  THEN AsRat(bound)[1] \div AsRat(bound)[2] + 1
  ELSE 0

\* How often the body of for (let i = 1; i <= bound; i++) runs, for a bound
\* other than +Infinity (under which the loop never ends)
LoopCount(bound) ==
  IF IsRat(bound) /\ RLeq(ROne, AsRat(bound))
  THEN AsRat(bound)[1] \div AsRat(bound)[2]
  ELSE 0

\* utils: the amount the breakdown loop computes in iteration i
PeriodAmount(params, n, i) ==
  LET periodTime == NDiv(NInt(i), n)
  IN  Compound(params.principal, params.rate, n, periodTime)

\* previousAmount initialised to 0 instead of the principal
BreakdownLoopFromNothing(params, n, totalPeriods) ==
  [i \in 1..LoopCount(totalPeriods) |->
     LET periodAmount == PeriodAmount(params, n, i)
         previousAmount == IF i = 1 THEN Zero
                           ELSE PeriodAmount(params, n, i - 1)
         interestEarned == NSub(periodAmount, previousAmount)
     IN  Row(i, periodAmount, interestEarned)]

\* utils: the breakdown loop; previousAmount is the principal in the first
\* iteration and the periodAmount of iteration i - 1 afterwards
BreakdownLoop(params, n, totalPeriods) ==
  [i \in 1..LoopCount(totalPeriods) |->
     LET periodAmount == PeriodAmount(params, n, i)
         previousAmount == IF i = 1 THEN params.principal
                           ELSE PeriodAmount(params, n, i - 1)
         interestEarned == NSub(periodAmount, previousAmount)
     IN  Row(i, periodAmount, interestEarned)]

\* utils: calculateCompoundInterest
calculateCompoundInterest(params) ==
  LET n == getFrequencyValue(params.frequency)
      timeInYears == TimeInYears(params.time, params.timeUnit)
      finalAmount == Compound(params.principal, params.rate, n, timeInYears)
      totalPeriods == NMul(n, timeInYears)
  IN  [finalAmount |-> finalAmount,
       totalInterest |-> NSub(finalAmount, params.principal),
       yearlyBreakdown |->
         IF totalPeriods = PosInf THEN <<>>
         ELSE BreakdownLoop(params, n, totalPeriods),
       formula |-> getFormula(params.frequency, "none"),
       returns |-> totalPeriods # PosInf]

\* utils2: the amount the breakdown loop computes in iteration i
PeriodAmount2(params, n, i) ==
  LET periodTime == IF params.frequency = "continuously" THEN NInt(i)
                    ELSE NDiv(NInt(i), n)
  IN  IF params.frequency = "continuously"
      THEN Continuous(params.principal, params.rate, periodTime)
      ELSE Compound(params.principal, params.rate, n, periodTime)

\* utils2: the breakdown loop
BreakdownLoop2(params, n, totalPeriods) ==
  [i \in 1..LoopCount(totalPeriods) |->
     LET periodAmount == PeriodAmount2(params, n, i)
         previousAmount == IF i = 1 THEN params.principal
                           ELSE PeriodAmount2(params, n, i - 1)
         interestEarned == NSub(periodAmount, previousAmount)
     IN  Row(i, periodAmount, interestEarned)]

\* utils2: calculateCompoundInterest (params.timeUnit is never read)
calculateCompoundInterest2(params) ==
  LET n == getFrequencyValue2(params.frequency)
      finalAmount ==
        IF params.frequency = "continuously"
        THEN Continuous(params.principal, params.rate, params.time)
        ELSE Compound(params.principal, params.rate, n, params.time)
      totalPeriods == IF params.frequency = "continuously" THEN params.time
                      ELSE NMul(n, params.time)
  IN  [finalAmount |-> finalAmount,
       totalInterest |-> NSub(finalAmount, params.principal),
       yearlyBreakdown |->
         IF totalPeriods = PosInf THEN <<>>
         ELSE BreakdownLoop2(params, n, totalPeriods),
       formula |-> getFormula2(params.frequency),
       returns |-> totalPeriods # PosInf]

\* vanilla: the breakdown loop, for (let year = 1; year <= time; year++)
BreakdownLoopVanilla(params) ==
  [year \in 1..LoopCount(params.time) |->
     LET amount ==
           IF params.frequency = "continuously"
           THEN Continuous(params.principal, params.rate, NInt(year))
           ELSE Compound(params.principal, params.rate,
                         getFrequencyNumber(params.frequency), NInt(year))
     IN  Row(year, amount, NSub(amount, params.principal))]

\* vanilla: calculateCompoundInterest (params.timeUnit is never read)
calculateCompoundInterestVanilla(params) ==
  LET finalAmount ==
        IF params.frequency = "continuously"
        THEN Continuous(params.principal, params.rate, params.time)
        ELSE Compound(params.principal, params.rate,
                      getFrequencyNumber(params.frequency), params.time)
  IN  [finalAmount |-> finalAmount,
       totalInterest |-> NSub(finalAmount, params.principal),
       yearlyBreakdown |->
         IF params.time = PosInf THEN <<>>
         ELSE BreakdownLoopVanilla(params),
       formula |-> "undefined",
       returns |-> params.time # PosInf]

(***************************************************************************)
(* The inverse solvers.                                                    *)
(***************************************************************************)
\* utils: calculateMissingPrincipal
calculateMissingPrincipal(finalAmount, rate, time, frequency, timeUnit) ==
  LET n == getFrequencyValue(frequency)
      timeInYears == TimeInYears(time, timeUnit)
  IN  NDiv(finalAmount,
           MathPow(NAdd(One, NDiv(NDiv(rate, NInt(100)), n)), NMul(n, timeInYears)))

\* utils: calculateMissingFinalAmount
calculateMissingFinalAmount(principal, rate, time, frequency, timeUnit) ==
  LET n == getFrequencyValue(frequency)
      timeInYears == TimeInYears(time, timeUnit)
  IN  Compound(principal, rate, n, timeInYears)

\* utils: calculateMissingRate
calculateMissingRate(principal, finalAmount, time, frequency, timeUnit) ==
  LET n == getFrequencyValue(frequency)
      timeInYears == TimeInYears(time, timeUnit)
  IN  NMul(NMul(NSub(MathPow(NDiv(finalAmount, principal),
                             NDiv(One, NMul(n, timeInYears))),
                     One),
                n),
           NInt(100))

\* utils: calculateMissingTime
calculateMissingTime(principal, finalAmount, rate, frequency, timeUnit) ==
  LET n == getFrequencyValue(frequency)
      timeInYears ==
        NDiv(MathLog(NDiv(finalAmount, principal)),
             NMul(n, MathLog(NAdd(One, NDiv(NDiv(rate, NInt(100)), n)))))
  IN  IF timeUnit = "days" THEN NMul(timeInYears, NInt(365)) ELSE timeInYears

\* utils2: calculateMissingPrincipal
calculateMissingPrincipal2(finalAmount, rate, time, frequency) ==
  LET n == getFrequencyValue2(frequency)
  IN  NDiv(finalAmount,
           MathPow(NAdd(One, NDiv(NDiv(rate, NInt(100)), n)), NMul(n, time)))

\* utils2: calculateMissingFinalAmount
calculateMissingFinalAmount2(principal, rate, time, frequency) ==
  Compound(principal, rate, getFrequencyValue2(frequency), time)

\* utils2: calculateMissingRate
calculateMissingRate2(principal, finalAmount, time, frequency) ==
  LET n == getFrequencyValue2(frequency)
  IN  NMul(NMul(n,
                NSub(MathPow(NDiv(finalAmount, principal),
                             NDiv(One, NMul(n, time))),
                     One)),
           NInt(100))

\* utils2: calculateMissingTime
calculateMissingTime2(principal, finalAmount, rate, frequency) ==
  LET n == getFrequencyValue2(frequency)
  IN  NDiv(MathLog(NDiv(finalAmount, principal)),
           NMul(n, MathLog(NAdd(One, NDiv(NDiv(rate, NInt(100)), n)))))

(***************************************************************************)
(* The engine as a state machine: an input is drawn, one implementation    *)
(* computes on it.  mode "forward": calculateCompoundInterest, then the    *)
(* principal is solved back from its finalAmount.  mode "principal",       *)
(* "rate", "time", "finalAmount": that value is solved from the other      *)
(* three, then calculateCompoundInterest runs with the solved value.       *)
(***************************************************************************)
VARIABLES
  impl,      \* "utils" | "utils2" | "vanilla": the implementation called
  mode,      \* "forward" or the value solved for
  params,    \* CalculationParams; the value solved for is NaN until solved
  known,     \* the known final amount of an inverse solve (NaN in mode forward)
  pc,        \* "ready" | "calculated" | "inverted" | "solved" | "recalculated"
  periods,   \* what the frequency lookup gave the last engine call
  solved,    \* what the last solver returned (NaN before)
  result,    \* the last CalculationResult (NoResult before)
  tz,        \* the host's offset from UTC in hours (local time = UTC + tz)
  heap,      \* the Date objects: reference -> the instant the object holds
  snapshot,  \* params and the Date objects as they were at the call
  values,    \* the missing-value form's StoredValues (texts and frequency)
  localStorage,  \* the item 'calculationHistory', as JSON.parse reads it
  calculations,  \* the rows of the remote table, oldest first
  rendering, \* how the table gives back a timestamp: as sent, or as its own text
  calls,     \* the handler invocations in progress or completed, per slot
  now,       \* Date.now(), in milliseconds
  ids,       \* how many ids generateId and the table have generated
  ui,        \* the history list shown, the last toast, the onCalculate calls
  display,   \* Index's calculationParams and the state of ResultsDisplay
  calculatorForm,  \* the calculator form's params and includeDate
  vanilla    \* the vanilla clone: its stored history, form fields and result

vars == <<impl, mode, params, known, pc, periods, solved, result,
          tz, heap, snapshot, values, localStorage, calculations, rendering,
          calls, now, ids, ui, display, calculatorForm, vanilla>>

\* the state outside the engine's numbers, which the actions on numbers
\* alone neither read nor write
store == <<values, localStorage, calculations, rendering, calls, now, ids, ui>>

StoreIdle ==
  /\ values = <<>>
  /\ localStorage = <<>>
  /\ calculations = <<>>
  /\ rendering = "sent"
  /\ calls = <<>>
  /\ now = 0
  /\ ids = 0
  /\ ui = <<>>

\* the pages' state around the engine and the store
pages == <<display, calculatorForm, vanilla>>

PagesIdle == display = <<>> /\ calculatorForm = <<>> /\ vanilla = <<>>

others == <<tz, heap, snapshot, store, pages>>

OthersIdle == tz = 0 /\ heap = <<>> /\ snapshot = <<>> /\ StoreIdle /\ PagesIdle

NoResult ==
  [finalAmount |-> NaN, totalInterest |-> NaN, yearlyBreakdown |-> <<>>,
   formula |-> "", returns |-> FALSE]

Impls == {"utils", "utils2", "vanilla"}

\* 'hourly' stands for any value outside the enumerated frequencies
Frequencies == CompoundingFrequency2 \cup {"hourly"}

FrequencyValue(i, frequency) ==
  CASE i = "utils" -> getFrequencyValue(frequency)
    [] i = "utils2" -> getFrequencyValue2(frequency)
    [] i = "vanilla" -> getFrequencyNumber(frequency)

Calculate(i, p) ==
  CASE i = "utils" -> calculateCompoundInterest(p)
    [] i = "utils2" -> calculateCompoundInterest2(p)
    [] i = "vanilla" -> calculateCompoundInterestVanilla(p)

MissingPrincipal(i, a, p) ==
  IF i = "utils"
  THEN calculateMissingPrincipal(a, p.rate, p.time, p.frequency, p.timeUnit)
  ELSE calculateMissingPrincipal2(a, p.rate, p.time, p.frequency)

MissingFinalAmount(i, p) ==
  IF i = "utils"
  THEN calculateMissingFinalAmount(p.principal, p.rate, p.time, p.frequency, p.timeUnit)
  ELSE calculateMissingFinalAmount2(p.principal, p.rate, p.time, p.frequency)

MissingRate(i, a, p) ==
  IF i = "utils"
  THEN calculateMissingRate(p.principal, a, p.time, p.frequency, p.timeUnit)
  ELSE calculateMissingRate2(p.principal, a, p.time, p.frequency)

MissingTime(i, a, p) ==
  IF i = "utils"
  THEN calculateMissingTime(p.principal, a, p.rate, p.frequency, p.timeUnit)
  ELSE calculateMissingTime2(p.principal, a, p.rate, p.frequency)

(***************************************************************************)
(* The inputs.  Rates are chosen per frequency so that the growth factor   *)
(* per period 1 + rate/(100 n) is one of 1, 2, 4, and horizons count      *)
(* half periods, so that every power the engine takes is a rational.       *)
(***************************************************************************)
MaxPrincipal == 2
MaxHalfPeriods == 4
MaxYears == 2
LongHorizon == 10
MaxRows == 365
MaxExponent == 4
MaxBase == 8

\* periods per year of the enumerated discrete frequencies, 1 otherwise
Nominal(frequency) == AsRat(getFrequencyValue(frequency))

Growths == {<<0, 1>>, <<1, 1>>, <<3, 1>>}

Rates(frequency) ==
  {Num(RMul(RInt(100), RMul(Nominal(frequency), g))) : g \in Growths}

TimesInYears(frequency) ==
  {Num(RDiv(RInt(j), RMul(RInt(2), Nominal(frequency)))) : j \in 0..MaxHalfPeriods}
    \cup {NInt(y) : y \in 1..MaxYears} \cup {NInt(LongHorizon)}

Times(frequency, timeUnit) ==
  IF timeUnit = "years" THEN TimesInYears(frequency)
  ELSE {NMul(t, NInt(365)) : t \in TimesInYears(frequency)}

\* the exponent n * t the implementation raises the growth factor to
Exponent(i, p) ==
  IF i = "utils"
  THEN NMul(FrequencyValue(i, p.frequency), TimeInYears(p.time, p.timeUnit))
  ELSE NMul(FrequencyValue(i, p.frequency), p.time)

GrowthFactor(i, p) ==
  NAdd(One, NDiv(NDiv(p.rate, NInt(100)), FrequencyValue(i, p.frequency)))

\* Math.pow(b, e) is a rational the model computes without overflow
PowFits(b, e) ==
  /\ (IsRat(b) /\ IsRat(e) /\ AsRat(b) # ROne) =>
       /\ Abs(AsRat(e)[1]) <= MaxExponent * AsRat(e)[2]
       /\ AsRat(e)[2] <= MaxExponent
       /\ AsRat(b)[1] <= MaxBase /\ AsRat(b)[2] <= MaxBase
  /\ PowExact(b, e)

\* the breakdown of calculateCompoundInterest(p) has at most MaxRows rows
RowsFit(i, p) ==
  LET bound == IF i = "vanilla" \/ (p.frequency = "continuously" /\ i = "utils2")
               THEN p.time ELSE Exponent(i, p)
  IN  LoopCount(bound) <= MaxRows

Fits(i, p) ==
  /\ RowsFit(i, p)
  /\ \/ i # "utils" /\ p.frequency = "continuously"
     \/ PowFits(GrowthFactor(i, p), Exponent(i, p))

\* the vanilla clone's form has no time unit: its time is always in years
Principals == {NInt(v) : v \in 0..MaxPrincipal}

ForwardInputs ==
  {x \in [impl : Impls, principal : Principals,
          frequency : Frequencies, timeUnit : {"years", "days"}] :
     x.impl = "vanilla" => x.timeUnit = "years"}

Params(principal, rate, time, timeUnit, frequency) ==
  [principal |-> principal, rate |-> rate, time |-> time,
   timeUnit |-> timeUnit, frequency |-> frequency]

InitForward ==
  /\ mode = "forward"
  /\ known = NaN
  /\ \E x \in ForwardInputs :
       /\ impl = x.impl
       /\ \E rate \in Rates(x.frequency), time \in Times(x.frequency, x.timeUnit) :
            /\ params = Params(x.principal, rate, time, x.timeUnit, x.frequency)
            /\ Fits(impl, params)

\* the known final amounts of an inverse solve
Amounts == {Num(<<1, 2>>), NInt(0), NInt(1), NInt(2), NInt(4)}

Solvers == {"principal", "rate", "time", "finalAmount"}

\* the solver's Math.pow and Math.log calls are ones the model computes
SolveFits(i, m, a, p) ==
  CASE m = "rate" ->
         PowFits(NDiv(a, p.principal), NDiv(One, Exponent(i, p)))
    [] m = "time" ->
         LET x == MathLog(NDiv(a, p.principal))
             y == MathLog(GrowthFactor(i, p))
         IN  (x.k = "ln" /\ y.k = "ln") =>
               LogExact((CHOOSE e \in x.t : TRUE)[1], (CHOOSE e \in y.t : TRUE)[1])
    [] OTHER -> Fits(i, p)

\* what the solver for m returns on the known values
Solve(i, m, a, p) ==
  CASE m = "principal" -> MissingPrincipal(i, a, p)
    [] m = "rate" -> MissingRate(i, a, p)
    [] m = "time" -> MissingTime(i, a, p)
    [] m = "finalAmount" -> MissingFinalAmount(i, p)

\* params with the solved value filled in
FilledIn(m, p, v) ==
  CASE m = "principal" -> [p EXCEPT !.principal = v]
    [] m = "rate" -> [p EXCEPT !.rate = v]
    [] m = "time" -> [p EXCEPT !.time = v]
    [] m = "finalAmount" -> p

InitInverse ==
  /\ mode \in Solvers
  /\ impl \in {"utils", "utils2"}
  /\ known \in (IF mode = "finalAmount" THEN {NaN} ELSE Amounts)
  /\ \E frequency \in Frequencies, timeUnit \in {"years", "days"} :
       \E principal \in (IF mode = "principal" THEN {NaN} ELSE Principals),
          rate \in (IF mode = "rate" THEN {NaN} ELSE Rates(frequency)),
          time \in (IF mode = "time" THEN {NaN}
                    ELSE Times(frequency, timeUnit)) :
         /\ params = Params(principal, rate, time, timeUnit, frequency)
         /\ SolveFits(impl, mode, known, params)
         /\ Fits(impl, FilledIn(mode, params, Solve(impl, mode, known, params)))

Init ==
  /\ pc = "ready"
  /\ periods = NaN
  /\ solved = NaN
  /\ result = NoResult
  /\ OthersIdle
  /\ InitForward \/ InitInverse

\* calculateCompoundInterest(params): on the form's inputs, or on the inputs
\* completed with the value a solver returned
CalculateCompoundInterest ==
  /\ (pc = "ready" /\ mode = "forward") \/ pc = "solved"
  /\ periods' = FrequencyValue(impl, params.frequency)
  /\ result' = Calculate(impl, params)
  /\ pc' = IF pc = "ready" THEN "calculated" ELSE "recalculated"
  /\ UNCHANGED <<impl, mode, params, known, solved, others>>

\* calculateMissingPrincipal: on the known final amount, or on the
\* finalAmount calculateCompoundInterest has just computed
SolvePrincipal ==
  /\ (pc = "ready" /\ mode = "principal") \/ (pc = "calculated" /\ impl # "vanilla")
  /\ periods' = FrequencyValue(impl, params.frequency)
  /\ solved' = MissingPrincipal(impl, IF pc = "ready" THEN known
                                       ELSE result.finalAmount, params)
  /\ params' = IF pc = "ready" THEN [params EXCEPT !.principal = solved']
                ELSE params
  /\ pc' = IF pc = "ready" THEN "solved" ELSE "inverted"
  /\ UNCHANGED <<impl, mode, known, result, others>>

\* calculateMissingRate on the known values
SolveRate ==
  /\ pc = "ready" /\ mode = "rate"
  /\ periods' = FrequencyValue(impl, params.frequency)
  /\ solved' = MissingRate(impl, known, params)
  /\ params' = [params EXCEPT !.rate = solved']
  /\ pc' = "solved"
  /\ UNCHANGED <<impl, mode, known, result, others>>

\* calculateMissingTime on the known values
SolveTime ==
  /\ pc = "ready" /\ mode = "time"
  /\ periods' = FrequencyValue(impl, params.frequency)
  /\ solved' = MissingTime(impl, known, params)
  /\ params' = [params EXCEPT !.time = solved']
  /\ pc' = "solved"
  /\ UNCHANGED <<impl, mode, known, result, others>>

\* calculateMissingFinalAmount on the known values
SolveFinalAmount ==
  /\ pc = "ready" /\ mode = "finalAmount"
  /\ periods' = FrequencyValue(impl, params.frequency)
  /\ solved' = MissingFinalAmount(impl, params)
  /\ pc' = "solved"
  /\ UNCHANGED <<impl, mode, params, known, result, others>>

Next ==
  \/ CalculateCompoundInterest
  \/ SolvePrincipal
  \/ SolveRate
  \/ SolveTime
  \/ SolveFinalAmount

Spec == Init /\ [][Next]_vars

(***************************************************************************)
(* Properties.                                                             *)
(***************************************************************************)
NonNegative(a) == IsRat(a) /\ RSign(AsRat(a)) >= 0
Positive(a) == IsRat(a) /\ RSign(AsRat(a)) > 0

ValidInput ==
  NonNegative(params.principal) /\ NonNegative(params.rate) /\ NonNegative(params.time)

\* the sum of interestEarned over rows lo..hi of a breakdown
RECURSIVE SumInterest(_, _, _)
SumInterest(rows, lo, hi) ==
  IF lo > hi THEN Zero
  ELSE IF lo = hi THEN rows[lo].interestEarned
  ELSE LET mid == (lo + hi) \div 2
       IN  NAdd(SumInterest(rows, lo, mid), SumInterest(rows, mid + 1, hi))

\* the time horizon in years, as the data model defines it
HorizonInYears(p) == IF p.timeUnit = "days" THEN NDiv(p.time, NInt(365)) ELSE p.time

\* C1: for a discrete frequency with n periods per year and a horizon with
\* n * timeInYears a whole number N, the breakdown has exactly N rows, with
\* period indices 1, 2, ..., N in that order.
C1_OneRowPerPeriod ==
  (pc = "calculated" /\ params.frequency \in CompoundingFrequency) =>
    LET N == AsRat(NMul(getFrequencyValue(params.frequency), HorizonInYears(params)))
    IN  (RIsInt(N) /\ N[1] >= 0) =>
          /\ Len(result.yearlyBreakdown) = N[1]
          /\ \A i \in 1..N[1] : result.yearlyBreakdown[i].year = i

\* C2: in every breakdown of every implementation, row i's interestEarned is
\* amount(i) - amount(i-1), with amount(0) the principal.
C2_InterestPerPeriod ==
  (pc = "calculated" /\ ValidInput) =>
    \A i \in 1..Len(result.yearlyBreakdown) :
      result.yearlyBreakdown[i].interestEarned =
        NSub(result.yearlyBreakdown[i].amount,
             IF i = 1 THEN params.principal
             ELSE result.yearlyBreakdown[i - 1].amount)

\* C3: for every valid input the interestEarned of all rows sum to
\* totalInterest, and the last row's amount is finalAmount.
C3_BreakdownSumLaw ==
  (pc = "calculated" /\ impl \in {"utils", "utils2"} /\ ValidInput) =>
    LET rows == result.yearlyBreakdown
    IN  /\ SumInterest(rows, 1, Len(rows)) = result.totalInterest
        /\ Len(rows) > 0 => rows[Len(rows)].amount = result.finalAmount

C5_ZeroRate ==
  (pc \in {"calculated", "recalculated"} /\ params.rate = Zero
     /\ IsRat(params.principal) /\ IsRat(params.time)) =>
    /\ NEq(result.finalAmount, params.principal)
    /\ \A i \in 1..Len(result.yearlyBreakdown) :
         result.yearlyBreakdown[i].interestEarned = Zero

C5_Witness ==
  /\ pc = "calculated" /\ params.rate = Zero /\ Positive(params.principal)
  /\ Len(result.yearlyBreakdown) >= 2
  /\ result.finalAmount = params.principal

\* C6: with time = 0 (years or days), for every principal, rate and
\* frequency, finalAmount is the principal and the breakdown is empty.
C6_ZeroTime ==
  (pc \in {"calculated", "recalculated"} /\ params.time = Zero
     /\ IsRat(params.principal) /\ IsRat(params.rate)) =>
    /\ NEq(result.finalAmount, params.principal)
    /\ Len(result.yearlyBreakdown) = 0

C6_Witness ==
  /\ pc = "calculated" /\ params.time = Zero /\ params.timeUnit = "days"
  /\ Positive(params.principal) /\ Positive(params.rate)
  /\ result.finalAmount = params.principal
  /\ result.yearlyBreakdown = <<>>

\* C7: for every frequency, continuously included, and principal > 0,
\* rate >= 0, time >= 0, calculateMissingPrincipal on the computed
\* finalAmount with the same rate, time and frequency returns the principal.
C7_PrincipalRoundTrip ==
  (pc = "inverted" /\ ValidInput /\ Positive(params.principal)) =>
    NEq(solved, params.principal)

\* C8: for a valid known triple (principal > 0, finalAmount > 0 and a
\* positive third value), calculateCompoundInterest with the rate or time
\* the solver returned reproduces the known finalAmount, for every
\* frequency and for time in years or in days.
C8_RateTimeRoundTrip ==
  (pc = "recalculated" /\ mode \in {"rate", "time"}
     /\ Positive(params.principal) /\ Positive(known)
     /\ (mode = "rate" => Positive(params.time))
     /\ (mode = "time" => Positive(params.rate))) =>
    /\ result.returns
    /\ NEq(result.finalAmount, known)

\* params with a horizon of 365 k days restated as k years
InYears(p) == [p EXCEPT !.time = NDiv(p.time, NInt(365)), !.timeUnit = "years"]

WholeYearsInDays(p) ==
  p.timeUnit = "days" /\ IsRat(p.time) /\ RIsInt(RDiv(AsRat(p.time), RInt(365)))

\* C9: with timeUnit 'days' every engine function uses time / 365 as the
\* time in years: on 365 k days calculateCompoundInterest gives the
\* finalAmount and breakdown length it gives on k years, the solvers for
\* principal, rate and final amount return what they return on k years, and
\* the time solver returns 365 times the years it returns for timeUnit years.
C9_DaysAreYears ==
  /\ (pc = "calculated" /\ WholeYearsInDays(params)) =>
       /\ result.finalAmount = Calculate(impl, InYears(params)).finalAmount
       /\ Len(result.yearlyBreakdown) =
            Len(Calculate(impl, InYears(params)).yearlyBreakdown)
  /\ (pc = "solved" /\ mode # "time" /\ WholeYearsInDays(params)) =>
       solved = Solve(impl, mode, known, InYears(params))
  /\ (pc = "solved" /\ mode = "time" /\ params.timeUnit = "days") =>
       solved = NMul(Solve(impl, mode, known, [params EXCEPT !.timeUnit = "years"]),
                     NInt(365))

\* the failure the lookup is specified to report for an unknown frequency
InvalidFrequency == [k |-> "InvalidFrequency", t |-> {}]

\* C10: the periods-per-year lookup maps annually, semi-annually, quarterly,
\* monthly, weekly, daily to 1, 2, 4, 12, 52, 365 and fails with
\* InvalidFrequency on a frequency outside the enumerated set.
C10_FrequencyLookup ==
  pc \in {"calculated", "solved"} =>
    /\ params.frequency = "annually" => periods = NInt(1)
    /\ params.frequency = "semi-annually" => periods = NInt(2)
    /\ params.frequency = "quarterly" => periods = NInt(4)
    /\ params.frequency = "monthly" => periods = NInt(12)
    /\ params.frequency = "weekly" => periods = NInt(52)
    /\ params.frequency = "daily" => periods = NInt(365)
    /\ params.frequency \notin CompoundingFrequency2 => periods = InvalidFrequency

\* the failure a solver is specified to report instead of a non-finite value
SolverError == [k |-> "SolverError", t |-> {}]

\* C11: calculateMissingRate and calculateMissingTime never return a
\* non-finite value: the call fails with an explicit error instead, and no
\* non-finite value is passed on to calculateCompoundInterest.
C11_SolversNeverNonFinite ==
  (pc \in {"solved", "recalculated"} /\ mode \in {"rate", "time"}) =>
    /\ solved = SolverError \/ IsFinite(solved)
    /\ pc = "recalculated" => IsFinite(solved)

(***************************************************************************)
(* Dates.  A Date object holds an instant, kept here as its UTC fields     *)
(* [y, mo, d, h] (mo is 0-based as in getMonth).  The getters and setters  *)
(* the engine calls work on the fields of the host's local time, which is  *)
(* UTC + tz hours; toISOString renders the UTC fields.                     *)
(***************************************************************************)
IsLeap(y) == (y % 4 = 0 /\ y % 100 # 0) \/ y % 400 = 0

DaysInMonth(y, mo) ==
  CASE mo = 1 -> IF IsLeap(y) THEN 29 ELSE 28
    [] mo \in {3, 5, 8, 10} -> 30
    [] OTHER -> 31

\* the calendar day that year y, month mo, day d name once a month beyond
\* December and a day outside the month are carried over (ECMAScript MakeDay)
RECURSIVE MakeDay(_, _, _)
MakeDay(y, mo, d) ==
  IF mo > 11 THEN MakeDay(y + 1, mo - 12, d)
  ELSE IF mo < 0 THEN MakeDay(y - 1, mo + 12, d)
  ELSE IF d > DaysInMonth(y, mo) THEN MakeDay(y, mo + 1, d - DaysInMonth(y, mo))
  ELSE IF d < 1
  THEN LET py == IF mo = 0 THEN y - 1 ELSE y
           pm == IF mo = 0 THEN 11 ELSE mo - 1
       IN  MakeDay(py, pm, d + DaysInMonth(py, pm))
  ELSE <<y, mo, d>>

DateValue(y, mo, d, h) == [y |-> y, mo |-> mo, d |-> d, h |-> h]

\* the fields of instant t on a clock that is offset hours ahead of t's
Shifted(t, offset) ==
  LET h == t.h + offset
      day == IF h >= 24 THEN MakeDay(t.y, t.mo, t.d + 1)
             ELSE IF h < 0 THEN MakeDay(t.y, t.mo, t.d - 1)
             ELSE <<t.y, t.mo, t.d>>
  IN  DateValue(day[1], day[2], day[3], (h + 24) % 24)

LocalTime(t, offset) == Shifted(t, offset)
UTC(local, offset) == Shifted(local, 0 - offset)

\* the instant whose local fields are year y, month mo, day d at the local
\* time of day of t
WithLocalDay(t, offset, y, mo, d) ==
  LET day == MakeDay(y, mo, d)
  IN  UTC(DateValue(day[1], day[2], day[3], LocalTime(t, offset).h), offset)

\* date.setFullYear(date.getFullYear() + k)
AddFullYears(t, offset, k) ==
  WithLocalDay(t, offset, LocalTime(t, offset).y + k,
               LocalTime(t, offset).mo, LocalTime(t, offset).d)

\* date.setMonth(date.getMonth() + k)
AddMonths(t, offset, k) ==
  WithLocalDay(t, offset, LocalTime(t, offset).y,
               LocalTime(t, offset).mo + k, LocalTime(t, offset).d)

\* date.setDate(date.getDate() + k)
AddDays(t, offset, k) ==
  WithLocalDay(t, offset, LocalTime(t, offset).y,
               LocalTime(t, offset).mo, LocalTime(t, offset).d + k)

\* date.toISOString().split('T')[0]: year, month (1-based) and day in UTC
IsoDate(t) == <<t.y, t.mo + 1, t.d>>

\* switch (frequency) of the breakdown loop: the instant after the setter
StepDate(frequency, t, offset) ==
  CASE frequency = "annually" -> AddFullYears(t, offset, 1)
    [] frequency = "semi-annually" -> AddMonths(t, offset, 6)
    [] frequency = "quarterly" -> AddMonths(t, offset, 3)
    [] frequency = "monthly" -> AddMonths(t, offset, 1)
    [] frequency = "weekly" -> AddDays(t, offset, 7)
    [] frequency = "daily" -> AddDays(t, offset, 1)
    [] OTHER -> t

\* no copy: the same object under another name
SameDate(h, ref) == [heap |-> h, ref |-> ref]

\* new Date(x): a new object holding the instant of x
NewDate(h, ref) == [heap |-> Append(h, h[ref]), ref |-> Len(h) + 1]

\* a reference to no Date object (null, undefined) and the date of a row
\* that carries none
NoDate == 0
Undated == <<>>

\* let currentDate = startDate ? new Date(startDate) : undefined
StartLoop(h, startDate) ==
  IF startDate = NoDate
  THEN [heap |-> h, currentDate |-> NoDate, dates |-> <<>>]
  ELSE [heap |-> NewDate(h, startDate).heap,
        currentDate |-> NewDate(h, startDate).ref, dates |-> <<>>]

\* the date part of one iteration: if (currentDate) { ... }
DateIteration(frequency, st, offset) ==
  IF st.currentDate = NoDate
  THEN [st EXCEPT !.dates = Append(st.dates, Undated)]
  ELSE LET date == NewDate(st.heap, st.currentDate)
           stepped == StepDate(frequency, date.heap[date.ref], offset)
       IN  [heap |-> [date.heap EXCEPT ![date.ref] = stepped],
            currentDate |-> date.ref,
            dates |-> Append(st.dates, IsoDate(stepped))]

\* the date part of count iterations of the breakdown loop
RECURSIVE DateLoop(_, _, _, _)
DateLoop(frequency, st, offset, count) ==
  IF count = 0 THEN st
  ELSE DateLoop(frequency, DateIteration(frequency, st, offset), offset, count - 1)

\* breakdown.push({year, amount, interestEarned, date})
RowWithDate(row, date) ==
  [year |-> row.year, amount |-> row.amount,
   interestEarned |-> row.interestEarned, date |-> date]

(***************************************************************************)
(* calculateCompoundInterest on params that may carry a startDate: the     *)
(* numbers as above, and the date of every row.                            *)
(***************************************************************************)
MaxDatedRows == 12

\* the host's offsets from UTC: New York (winter), UTC, Manila
Offsets == {0 - 5, 0, 8}

\* the instants a startDate holds: new Date('YYYY-MM-DD') of the date input
\* is midnight UTC of that day, new Date() is any time of day
StartDates ==
  {DateValue(2023, 11, 31, 0), DateValue(2024, 0, 31, 0),
   DateValue(2024, 1, 29, 0), DateValue(2024, 2, 1, 0),
   DateValue(2024, 5, 15, 18)}

\* the dates of the count rows and the Date objects after the loop; the
\* vanilla clone's loop has no dates
BreakdownDates(i, p, h, offset, count) ==
  IF i = "vanilla"
  THEN [heap |-> h, dates |-> [k \in 1..count |-> Undated]]
  ELSE DateLoop(p.frequency, StartLoop(h, p.startDate), offset, count)

\* the result with the date of every row
WithDates(base, dates) ==
  [base EXCEPT !.yearlyBreakdown =
     [k \in 1..Len(dates) |-> RowWithDate(base.yearlyBreakdown[k], dates[k])]]

DatedParams(principal, rate, time, frequency, startDate) ==
  [principal |-> principal, rate |-> rate, time |-> time, timeUnit |-> "years",
   frequency |-> frequency, startDate |-> startDate]

DatedInit ==
  /\ pc = "ready" /\ mode = "forward" /\ known = NaN
  /\ periods = NaN /\ solved = NaN /\ result = NoResult /\ snapshot = <<>>
  /\ StoreIdle /\ PagesIdle
  /\ impl \in Impls
  /\ tz \in Offsets
  /\ \E frequency \in Frequencies, g \in {<<0, 1>>, <<1, 1>>} :
       \E time \in TimesInYears(frequency),
          dateObjects \in {<<>>} \cup {<<t>> : t \in StartDates} :
         /\ heap = dateObjects
         /\ params = DatedParams(One, Num(RMul(RInt(100), RMul(Nominal(frequency), g))),
                                 time, frequency, Len(dateObjects))
         /\ Fits(impl, params)
         /\ LoopCount(IF impl = "utils" THEN Exponent(impl, params) ELSE time)
              <= MaxDatedRows
         /\ LoopCount(Exponent(impl, params)) <= MaxDatedRows
              \/ impl = "vanilla" \/ frequency = "continuously"

\* calculateCompoundInterest(params), the dates of the rows included
CalculateCompoundInterestDated ==
  /\ pc = "ready"
  /\ snapshot' = [params |-> params, heap |-> heap]
  /\ periods' = FrequencyValue(impl, params.frequency)
  /\ \E base \in {Calculate(impl, params)} :
       \E loop \in {BreakdownDates(impl, params, heap, tz,
                                     Len(base.yearlyBreakdown))} :
         /\ result' = WithDates(base, loop.dates)
         /\ heap' = loop.heap
  /\ pc' = "calculated"
  /\ UNCHANGED <<impl, mode, params, known, solved, tz, store, pages>>

DatedNext == CalculateCompoundInterestDated

DatedSpec == DatedInit /\ [][DatedNext]_vars

\* C13: calculateCompoundInterest never mutates its params argument: after
\* the call every field of params has the value it had before, and so has
\* every Date object that existed before the call, the startDate included.
C13_ParamsNotMutated ==
  pc = "calculated" =>
    /\ params = snapshot.params
    /\ \A ref \in DOMAIN snapshot.heap : heap[ref] = snapshot.heap[ref]

C13_Witness ==
  /\ pc = "calculated" /\ params.startDate # NoDate
  /\ Len(result.yearlyBreakdown) >= 2
  /\ result.yearlyBreakdown[2].date # Undated
  /\ result.yearlyBreakdown[2].date # IsoDate(heap[params.startDate])
  /\ heap[params.startDate] = snapshot.heap[params.startDate]

\* the calendar date one compounding interval after date <<y, m, d>>, a day
\* beyond the end of the month carried over into the next month
Advance(frequency, date) ==
  LET day == CASE frequency = "annually" -> MakeDay(date[1] + 1, date[2] - 1, date[3])
               [] frequency = "semi-annually" -> MakeDay(date[1], date[2] + 5, date[3])
               [] frequency = "quarterly" -> MakeDay(date[1], date[2] + 2, date[3])
               [] frequency = "monthly" -> MakeDay(date[1], date[2], date[3])
               [] frequency = "weekly" -> MakeDay(date[1], date[2] - 1, date[3] + 7)
               [] frequency = "daily" -> MakeDay(date[1], date[2] - 1, date[3] + 1)
  IN  <<day[1], day[2] + 1, day[3]>>

\* calendar date a is before calendar date b
DateBefore(a, b) ==
  \/ a[1] < b[1]
  \/ a[1] = b[1] /\ a[2] < b[2]
  \/ a[1] = b[1] /\ a[2] = b[2] /\ a[3] < b[3]

\* C14: with a startDate and a discrete frequency every row carries a date,
\* row 1's is the startDate's date advanced by one compounding interval and
\* row i's is row i-1's advanced by one interval, so the dates strictly
\* increase; without a startDate no row carries a date.
C14_DateStepping ==
  (pc = "calculated" /\ impl \in {"utils", "utils2"}
     /\ params.frequency \in CompoundingFrequency) =>
    LET rows == result.yearlyBreakdown
        start == IF params.startDate = NoDate THEN Undated
                 ELSE IsoDate(snapshot.heap[params.startDate])
    IN  \A i \in 1..Len(rows) :
          IF params.startDate = NoDate THEN rows[i].date = Undated
          ELSE /\ rows[i].date # Undated
               /\ rows[i].date =
                    Advance(params.frequency,
                            IF i = 1 THEN start ELSE rows[i - 1].date)
               /\ DateBefore(IF i = 1 THEN start ELSE rows[i - 1].date,
                             rows[i].date)

\* C15: with frequency continuously the breakdown has one row per whole year
\* up to time, row i holding the continuous growth over i years, and no row
\* carries a date, with or without a startDate.
C15_ContinuousBreakdown ==
  (pc = "calculated" /\ impl \in {"utils2", "vanilla"}
     /\ params.frequency = "continuously") =>
    LET rows == result.yearlyBreakdown
    IN  /\ Len(rows) = LoopCount(params.time)
        /\ \A i \in 1..Len(rows) :
             /\ rows[i].year = i
             /\ rows[i].amount = Continuous(params.principal, params.rate, NInt(i))
             /\ rows[i].date = Undated

(***************************************************************************)
(* The history store and the handlers that use it.                         *)
(*                                                                         *)
(* Values outside the numbers: a Date object and the ISO string that       *)
(* toISOString() makes of it are different values holding the same         *)
(* instant; null and undefined are values of their own.                    *)
(***************************************************************************)
Null == [k |-> "null", t |-> {}]
Undefined == [k |-> "undefined", t |-> {}]

NoInstant == DateValue(0, 0, 0, 0)
Date(t) == [k |-> "Date", t |-> t]
toISOString(t) == [k |-> "string", t |-> t]
NullDate == [k |-> "null", t |-> NoInstant]
UndefinedDate == [k |-> "undefined", t |-> NoInstant]

\* createdAt and created_at hold the ISO string of a time in milliseconds
NoTimestamp == [k |-> "undefined", t |-> 0]

\* created_at is a column of type TIMESTAMP WITH TIME ZONE: it holds the
\* instant, and a select gives it back as text.  Whether that text is the
\* text that was sent ('...Z') or the column's own text of the same instant
\* ('...+00:00') is up to the table
timestamptz(value) ==
  IF rendering = "timestamptz" THEN [k |-> "timestamptz", t |-> value.t] ELSE value

\* new Date(value) of an ISO string or of a Date
DateOf(value) == Date(value.t)

\* JSON.parse(JSON.stringify(x)) of a number: NaN and the infinities are
\* written as null
JsonNumber(x) == IF x.k \in {"nan", "+inf", "-inf"} THEN Null ELSE x

\* JSON.parse(JSON.stringify(x)) of a Date, a string, null or undefined: a
\* Date is written as its ISO string
JsonDate(x) == IF x.k = "Date" THEN toISOString(x.t) ELSE x

JsonRow(row) ==
  [row EXCEPT !.amount = JsonNumber(@), !.interestEarned = JsonNumber(@)]

Array(rows) == [k |-> "array", rows |-> rows]
NoArray == [k |-> "undefined", rows |-> <<>>]

\* JSON.parse(JSON.stringify(item)) of one history entry
JsonItem(item) ==
  [item EXCEPT
     !.principal = JsonNumber(@), !.rate = JsonNumber(@),
     !.time = JsonNumber(@), !.targetAmount = JsonNumber(@),
     !.finalAmount = JsonNumber(@), !.totalInterest = JsonNumber(@),
     !.startDate = JsonDate(@),
     !.yearlyBreakdown =
        [@ EXCEPT !.rows = [k \in DOMAIN @ |-> JsonRow(@[k])]]]

\* a serialisation that writes the list last entry first
JsonReversed(history) ==
  [k \in DOMAIN history |-> history[Len(history) + 1 - k]]

\* JSON.parse(JSON.stringify(history))
Json(history) == [k \in DOMAIN history |-> JsonItem(history[k])]

\* generateId(), and the id the table generates: gen_random_uuid()
generateId(n) == [k |-> "generateId", n |-> n]
gen_random_uuid(n) == [k |-> "uuid", n |-> n]

\* saveCalculation's historyItem: {...params, ...result, id, createdAt, ...};
\* startDate is the Date object, null or undefined that params holds
HistoryItem(p, startDate, r, id, createdAt) ==
  [id |-> id, createdAt |-> createdAt, created_at |-> NoTimestamp,
   principal |-> p.principal, rate |-> p.rate, time |-> p.time,
   timeUnit |-> p.timeUnit, time_unit |-> "undefined",
   frequency |-> p.frequency, startDate |-> startDate,
   targetAmount |-> p.targetAmount,
   finalAmount |-> r.finalAmount, totalInterest |-> r.totalInterest,
   formula |-> r.formula, yearlyBreakdown |-> Array(r.yearlyBreakdown)]

\* item.startDate?.toISOString() ?? null
StartDateColumn(d) == IF d.k = "Date" THEN toISOString(d.t) ELSE NullDate

\* a column the request does not name, or names with undefined, is NULL
TextColumn(x) == IF x = "undefined" THEN "null" ELSE x

\* the row of saveCalculation's insert, with the id the table gives it
InsertedRow(i, item, uuid) ==
  IF i = "utils"
  THEN [id |-> uuid,
        principal |-> JsonNumber(item.principal), rate |-> JsonNumber(item.rate),
        time |-> JsonNumber(item.time), time_unit |-> TextColumn(item.timeUnit),
        frequency |-> item.frequency,
        start_date |-> StartDateColumn(item.startDate),
        final_amount |-> JsonNumber(item.finalAmount),
        total_interest |-> JsonNumber(item.totalInterest),
        formula |-> item.formula, created_at |-> timestamptz(item.createdAt),
        startDate |-> UndefinedDate, finalAmount |-> Undefined,
        totalInterest |-> Undefined]
  ELSE [id |-> uuid,
        principal |-> JsonNumber(item.principal), rate |-> JsonNumber(item.rate),
        time |-> JsonNumber(item.time), time_unit |-> "undefined",
        frequency |-> item.frequency,
        start_date |-> UndefinedDate,
        final_amount |-> Undefined, total_interest |-> Undefined,
        formula |-> item.formula, created_at |-> timestamptz(item.createdAt),
        startDate |-> StartDateColumn(item.startDate),
        finalAmount |-> JsonNumber(item.finalAmount),
        totalInterest |-> JsonNumber(item.totalInterest)]

\* value ? new Date(value) : null
DateOrNull(value) == IF value.k = "string" THEN DateOf(value) ELSE NullDate

\* getCalculationHistory: the entry made of a row of the table
DbHistoryItem(i, row) ==
  IF i = "utils"
  THEN [id |-> row.id, createdAt |-> row.created_at, created_at |-> NoTimestamp,
        principal |-> row.principal, rate |-> row.rate, time |-> row.time,
        timeUnit |-> "undefined", time_unit |-> row.time_unit,
        frequency |-> row.frequency, startDate |-> DateOrNull(row.start_date),
        targetAmount |-> Undefined,
        finalAmount |-> row.final_amount, totalInterest |-> row.total_interest,
        formula |-> row.formula, yearlyBreakdown |-> NoArray]
  ELSE [id |-> row.id, createdAt |-> row.created_at, created_at |-> row.created_at,
        principal |-> row.principal, rate |-> row.rate, time |-> row.time,
        timeUnit |-> "undefined", time_unit |-> row.time_unit,
        frequency |-> row.frequency, startDate |-> DateOrNull(row.startDate),
        targetAmount |-> Undefined,
        finalAmount |-> row.finalAmount, totalInterest |-> row.totalInterest,
        formula |-> row.formula, yearlyBreakdown |-> NoArray]

\* .order('created_at', { ascending: false }): the rows, latest first
RECURSIVE OrderDescending(_)
OrderDescending(rows) ==
  IF rows = <<>> THEN <<>>
  ELSE LET latest == CHOOSE k \in DOMAIN rows :
                       \A j \in DOMAIN rows :
                         \/ rows[j].created_at.t < rows[k].created_at.t
                         \/ rows[j].created_at.t = rows[k].created_at.t /\ j >= k
       IN  <<rows[latest]>> \o
           OrderDescending([j \in 1..(Len(rows) - 1) |->
                              IF j < latest THEN rows[j] ELSE rows[j + 1]])

\* combinedHistory after the forEach over the first count entries of the
\* table: an entry is pushed unless one with its createdAt is there already
RECURSIVE Combined(_, _, _)
Combined(localItems, dbItems, count) ==
  IF count = 0 THEN localItems
  ELSE LET sofar == Combined(localItems, dbItems, count - 1)
           dbItem == dbItems[count]
       IN  IF \E k \in DOMAIN sofar : sofar[k].createdAt = dbItem.createdAt
           THEN sofar
           ELSE Append(sofar, dbItem)

\* a getCalculationHistory that returns nothing when the fetch fails
getCalculationHistoryOrNothing(i, localItems, rows, fetched) ==
  IF fetched
  THEN LET ordered == OrderDescending(rows)
       IN  Combined(localItems,
                    [k \in DOMAIN ordered |-> DbHistoryItem(i, ordered[k])],
                    Len(ordered))
  ELSE <<>>

\* what getCalculationHistory returns when it has read localItems and the
\* fetch gave rows, or failed
getCalculationHistory(i, localItems, rows, fetched) ==
  IF fetched
  THEN LET ordered == OrderDescending(rows)
       IN  Combined(localItems,
                    [k \in DOMAIN ordered |-> DbHistoryItem(i, ordered[k])],
                    Len(ordered))
  ELSE localItems

(***************************************************************************)
(* The missing-value form.  A text is the sequence of its characters.      *)
(***************************************************************************)
DigitCharacters == <<"0", "1", "2", "3", "4", "5", "6", "7", "8", "9">>

IsDigit(ch) == \E d \in DOMAIN DigitCharacters : DigitCharacters[d] = ch

DigitValue(ch) == (CHOOSE d \in DOMAIN DigitCharacters : DigitCharacters[d] = ch) - 1

IsNumeric(ch) == IsDigit(ch) \/ ch = "." \/ ch = "-"

\* input.replace(/[^0-9.-]/g, '')
cleanNumberInput(input) == SelectSeq(input, IsNumeric)

\* values[field].trim() === ''
IsBlank(text) == \A k \in DOMAIN text : text[k] = " "

RECURSIVE DigitsValue(_)
DigitsValue(digits) ==
  IF digits = <<>> THEN 0
  ELSE 10 * DigitsValue(SubSeq(digits, 1, Len(digits) - 1))
         + DigitValue(digits[Len(digits)])

\* Number(text) of a text of digits, '.' and '-': the empty text is 0, a
\* decimal literal with an optional leading '-' is its value, any other
\* text is NaN
Number(text) ==
  LET negative == text # <<>> /\ Head(text) = "-"
      body == IF negative THEN Tail(text) ELSE text
      dots == {k \in DOMAIN body : body[k] = "."}
      digits == SelectSeq(body, IsDigit)
      decimals == IF dots = {} THEN 0 ELSE Len(body) - (CHOOSE k \in dots : TRUE)
      value == Num(Rat(DigitsValue(digits), 10 ^ decimals))
  IN  CASE text = <<>> -> Zero
        [] \/ Cardinality(dots) > 1
           \/ digits = <<>>
           \/ \E k \in DOMAIN body : body[k] = "-" -> NaN
        [] OTHER -> IF negative THEN NNeg(value) ELSE value

\* isNaN(value) || value < 0
IsInvalid(value) == IsNaN(value) \/ (NLeq(value, Zero) /\ ~NEq(value, Zero))

SAMPLE_VALUES ==
  [principal |-> <<>>, rate |-> <<>>, time |-> <<>>,
   frequency |-> "monthly", finalAmount |-> <<>>]

\* handleCalculate's first loop: a required field is empty
MissingInput(v, solveFor) ==
  \E field \in {"principal", "rate", "time"} \ {solveFor} :
    v[field] = <<>> \/ IsBlank(v[field])

\* handleCalculate's numericValues; the value solved for is null
NumericValues(v, solveFor) ==
  [principal |-> IF solveFor # "principal" THEN Number(cleanNumberInput(v.principal))
                 ELSE Null,
   rate |-> IF solveFor # "rate" THEN Number(cleanNumberInput(v.rate)) ELSE Null,
   time |-> IF solveFor # "time" THEN Number(cleanNumberInput(v.time)) ELSE Null,
   finalAmount |-> Number(cleanNumberInput(v.finalAmount)),
   frequency |-> v.frequency]

\* handleCalculate's second loop: a number that is NaN or negative
InvalidInput(numericValues, solveFor) ==
  \E key \in {"principal", "rate", "time", "finalAmount"} \ {solveFor} :
    numericValues[key] # Null /\ IsInvalid(numericValues[key])

(***************************************************************************)
(* The handlers.  A handler runs to its first await in the action that     *)
(* starts it; each await of a remote call resolves in an action of its     *)
(* own, with the remote call succeeding or failing, and the handler then   *)
(* runs on to its next await.  A handler starts in a free slot of calls;   *)
(* the specifications below give the page one slot, so that a handler      *)
(* starts when the one before it has finished.                             *)
(***************************************************************************)
MaxSaves == 2

\* the slots of the handler invocations
Callers == DOMAIN calls

NoId == generateId(0)

NoParams ==
  [principal |-> NaN, rate |-> NaN, time |-> NaN, timeUnit |-> "undefined",
   frequency |-> "annually", startDate |-> NoDate, targetAmount |-> Undefined]

NoItem == HistoryItem(NoParams, UndefinedDate, NoResult, NoId, NoTimestamp)

Call(op, position, item, solveFor, localItems, before) ==
  [op |-> op, pc |-> position, item |-> item, solveFor |-> solveFor,
   localItems |-> localItems, before |-> before, after |-> <<>>,
   accepted |-> TRUE, overlapped |-> FALSE, failed |-> FALSE]

Idle == Call("idle", "done", NoItem, "undefined", <<>>, <<>>)

Active(c) == calls[c].pc # "done"

\* the slot a handler starts in: the first one not in use
Free(c) == ~Active(c) /\ \A k \in Callers : k < c => Active(k)

\* a handler whose engine call does not return blocks the page
Responsive == \A c \in Callers : calls[c].pc # "hung"

\* the calls once call has started in slot c
Begin(c, call) ==
  [k \in Callers |->
     IF k = c THEN [call EXCEPT !.overlapped = \E j \in Callers : Active(j)]
     ELSE IF Active(k) THEN [calls[k] EXCEPT !.overlapped = TRUE]
     ELSE calls[k]]

\* what a getCalculationHistory call returns now, the fetch succeeding
Listed == getCalculationHistory(impl, localStorage, calculations, TRUE)

\* a handler that returns at a failed validation
Rejected(op) ==
  [Call(op, "done", NoItem, mode, localStorage, Listed)
     EXCEPT !.accepted = FALSE, !.after = Listed]

\* saveCalculation up to its first await: the historyItem is built and
\* getCalculationHistory has read localStorage
saveCalculation(c, op, p, startDate, r) ==
  /\ now' = now + 1
  /\ ids' = ids + 1
  /\ calls' = Begin(c, Call(op, IF r.returns THEN "fetch" ELSE "hung",
                            HistoryItem(p, startDate, r, generateId(ids + 1),
                                        toISOString(now + 1)),
                            mode, localStorage, Listed))

Undate(base) ==
  WithDates(base, [k \in 1..Len(base.yearlyBreakdown) |-> Undated])

\* the missing-value form's params before the solve
KnownParams(numericValues) ==
  [principal |-> numericValues.principal, rate |-> numericValues.rate,
   time |-> numericValues.time, timeUnit |-> "undefined",
   frequency |-> numericValues.frequency, startDate |-> NoDate,
   targetAmount |-> numericValues.finalAmount]

\* missing-value-calculator.tsx: handleCalculate
handleCalculate ==
  /\ Responsive
  /\ now < MaxSaves
  /\ mode \in {"principal", "rate", "time"}
  /\ \E c \in Callers, numericValues \in {NumericValues(values, mode)} :
       /\ Free(c)
       /\ IF MissingInput(values, mode) \/ InvalidInput(numericValues, mode)
          THEN /\ ui' = [ui EXCEPT !.toast = IF MissingInput(values, mode)
                                              THEN "Missing Input"
                                              ELSE "Invalid Input"]
               /\ calls' = Begin(c, Rejected("handleCalculate"))
               /\ UNCHANGED <<params, known, pc, periods, solved, result, now, ids>>
          ELSE \E p \in {KnownParams(numericValues)} :
                 /\ SolveFits(impl, mode, numericValues.finalAmount, p)
                 /\ \E value \in {Solve(impl, mode, numericValues.finalAmount, p)} :
                      \E filled \in {FilledIn(mode, p, value)} :
                        /\ Fits(impl, filled)
                        /\ \E r \in {Undate(Calculate(impl, filled))} :
                             /\ params' = filled
                             /\ known' = numericValues.finalAmount
                             /\ solved' = value
                             /\ result' = r
                             /\ saveCalculation(c, "handleCalculate", filled,
                                                UndefinedDate, r)
                 /\ periods' = FrequencyValue(impl, numericValues.frequency)
                 /\ pc' = "recalculated"
                 /\ UNCHANGED ui
  /\ UNCHANGED <<pages, rendering, impl, mode, tz, heap, snapshot, values, localStorage, calculations>>

\* the inputs of the calculator form
FormInputs ==
  {p \in [principal : {Zero, One}, rate : {NInt(100), NInt(101)},
          time : {One, Num(<<3, 2>>), NInt(1095)},
          timeUnit : {"years", "days"}, frequency : {"annually"},
          startDate : {1}, targetAmount : {Undefined}] :
     (p.timeUnit = "days") = (p.time = NInt(1095))}

\* a field of the calculator form that has been emptied holds ''
EmptyString == [k |-> "string", t |-> {}]

\* the number a comparison makes of a field: '' is 0
ToNumber(v) == IF v = EmptyString THEN Zero ELSE v

\* Number.isInteger(v)
IsInteger(v) == v # EmptyString /\ IsRat(v) /\ RIsInt(AsRat(v))

\* calculator-form.tsx: the validation of handleSubmit
RejectedInput(p) ==
  \/ NLeq(ToNumber(p.principal), Zero)
  \/ NLeq(ToNumber(p.rate), Zero)
  \/ (NGeq(ToNumber(p.rate), NInt(100)) /\ ~NEq(ToNumber(p.rate), NInt(100)))
  \/ NLeq(ToNumber(p.time), Zero)
  \/ ~IsInteger(p.time)

\* the params handleSubmit reads: the state of the form where the form is
\* followed edit by edit, any of FormInputs where it is not
FormParams ==
  IF calculatorForm = <<>> THEN FormInputs ELSE {calculatorForm[1]}

\* calculator-form.tsx: handleSubmit
handleSubmit ==
  /\ Responsive
  /\ now < MaxSaves
  /\ \E c \in Callers, p \in FormParams :
       /\ Free(c)
       /\ p.startDate \in {NoDate} \cup DOMAIN heap
       /\ IF RejectedInput(p)
          THEN /\ ui' = [ui EXCEPT !.toast =
                             CASE NLeq(ToNumber(p.principal), Zero) -> "Invalid Principal"
                               [] \/ NLeq(ToNumber(p.rate), Zero)
                                  \/ ~NLeq(ToNumber(p.rate), NInt(100)) ->
                                    "Invalid Interest Rate"
                               [] OTHER -> "Invalid Time Period"]
               /\ calls' = Begin(c, Rejected("handleSubmit"))
               /\ UNCHANGED <<params, pc, periods, result, now, ids>>
          ELSE /\ Fits(impl, p)
               /\ \E base \in {Calculate(impl, p)} :
                    \E loop \in {BreakdownDates(impl, p, heap, tz,
                                                  Len(base.yearlyBreakdown))} :
                      \E r \in {WithDates(base, loop.dates)} :
                        /\ result' = r
                        /\ saveCalculation(c, "handleSubmit", p,
                                           IF p.startDate = NoDate THEN NullDate
                                           ELSE Date(heap[p.startDate]), r)
               /\ params' = p
               /\ periods' = FrequencyValue(impl, p.frequency)
               /\ pc' = "calculated"
               /\ UNCHANGED ui
  /\ UNCHANGED <<pages, rendering, impl, mode, known, solved, tz, heap, snapshot, values,
                 localStorage, calculations>>

\* saveCalculation once getCalculationHistory's fetch has resolved: the
\* item is put first and the list written to localStorage
saveCalculationFetched ==
  /\ Responsive
  /\ \E c \in Callers, fetched \in BOOLEAN :
       /\ calls[c].pc = "fetch"
       /\ calls[c].op \in {"handleCalculate", "handleSubmit"}
       /\ \E history \in {getCalculationHistory(impl, calls[c].localItems,
                                                  calculations, fetched)} :
            localStorage' = Json(<<calls[c].item>> \o history)
       /\ calls' = [calls EXCEPT ![c].pc = "insert", ![c].failed = @ \/ ~fetched]
  /\ UNCHANGED <<pages, rendering, impl, mode, params, known, pc, periods, solved, result, tz,
                 heap, snapshot, values, calculations, now, ids, ui>>

\* what the handler passes to onCalculate
OnCalculate(call) ==
  [principal |-> call.item.principal, rate |-> call.item.rate,
   time |-> call.item.time, timeUnit |-> call.item.timeUnit,
   frequency |-> call.item.frequency,
   finalAmount |->
     IF call.op = "handleSubmit" THEN Undefined
     ELSE IF IsNaN(call.item.targetAmount) \/ call.item.targetAmount = Zero
          THEN call.item.finalAmount ELSE call.item.targetAmount,
   solveFor |-> IF call.op = "handleSubmit" THEN "undefined" ELSE call.solveFor]

\* saveCalculation once the insert has resolved, and the rest of the
\* handler: onCalculate and the toast
saveCalculationInserted ==
  /\ Responsive
  /\ \E c \in Callers, inserted \in BOOLEAN :
       /\ calls[c].pc = "insert"
       /\ calculations' =
            IF inserted
            THEN Append(calculations,
                        InsertedRow(impl, calls[c].item, gen_random_uuid(ids + 1)))
            ELSE calculations
       /\ ids' = IF inserted THEN ids + 1 ELSE ids
       /\ ui' = [ui EXCEPT !.onCalculate = Append(@, OnCalculate(calls[c])),
                           !.toast = "Calculation Complete"]
       /\ calls' = [calls EXCEPT
                      ![c].pc = "done", ![c].failed = @ \/ ~inserted,
                      ![c].after = getCalculationHistory(impl, localStorage,
                                                         calculations', TRUE)]
  /\ UNCHANGED <<pages, rendering, impl, mode, params, known, pc, periods, solved, result, tz,
                 heap, snapshot, values, localStorage, now>>

\* calculation-history.tsx: loadHistory up to its await
loadHistory ==
  /\ Responsive
  /\ \E c \in Callers :
       /\ Free(c)
       /\ calls' = Begin(c, Call("loadHistory", "load", NoItem, "undefined",
                                 localStorage, Listed))
  /\ UNCHANGED <<pages, rendering, impl, mode, params, known, pc, periods, solved, result, tz,
                 heap, snapshot, values, localStorage, calculations, now, ids, ui>>

\* loadHistory once the fetch has resolved, and the rest of the handler
\* that called it
loadHistoryFetched ==
  /\ Responsive
  /\ \E c \in Callers, fetched \in BOOLEAN :
       /\ calls[c].pc = "load"
       /\ ui' = [ui EXCEPT
                   !.history = getCalculationHistory(impl, calls[c].localItems,
                                                     calculations, fetched),
                   !.toast = CASE calls[c].op = "handleDelete" -> "Calculation deleted"
                               [] calls[c].op = "handleClearAll" -> "History cleared"
                               [] OTHER -> @]
       /\ calls' = [calls EXCEPT ![c].pc = "done", ![c].failed = @ \/ ~fetched,
                                 ![c].after = Listed]
  /\ UNCHANGED <<pages, rendering, impl, mode, params, known, pc, periods, solved, result, tz,
                 heap, snapshot, values, localStorage, calculations, now, ids>>

\* calculation-history.tsx: handleDelete(id) of an entry shown, up to the
\* await in deleteCalculation's getCalculationHistory
handleDelete ==
  /\ Responsive
  /\ \E c \in Callers, shown \in DOMAIN ui.history :
       /\ Free(c)
       /\ calls' = Begin(c, Call("handleDelete", "fetch", ui.history[shown],
                                 "undefined", localStorage, Listed))
  /\ UNCHANGED <<pages, rendering, impl, mode, params, known, pc, periods, solved, result, tz,
                 heap, snapshot, values, localStorage, calculations, now, ids, ui>>

\* deleteCalculation once the fetch has resolved: the list without the id
\* is written to localStorage
deleteCalculationFetched ==
  /\ Responsive
  /\ \E c \in Callers, fetched \in BOOLEAN :
       /\ calls[c].pc = "fetch"
       /\ calls[c].op = "handleDelete"
       /\ \E history \in {getCalculationHistory(impl, calls[c].localItems,
                                                  calculations, fetched)} :
            localStorage' =
              Json(SelectSeq(history, LAMBDA item : item.id # calls[c].item.id))
       /\ calls' = [calls EXCEPT ![c].pc = "delete", ![c].failed = @ \/ ~fetched]
  /\ UNCHANGED <<pages, rendering, impl, mode, params, known, pc, periods, solved, result, tz,
                 heap, snapshot, values, calculations, now, ids, ui>>

\* deleteCalculation once the remote delete has resolved; handleDelete
\* goes on to loadHistory
deleteCalculationDeleted ==
  /\ Responsive
  /\ \E c \in Callers, deleted \in BOOLEAN :
       /\ calls[c].pc = "delete"
       /\ calculations' =
            IF deleted
            THEN SelectSeq(calculations, LAMBDA row : row.id # calls[c].item.id)
            ELSE calculations
       /\ calls' = [calls EXCEPT ![c].pc = "load", ![c].failed = @ \/ ~deleted,
                                 ![c].localItems = localStorage]
  /\ UNCHANGED <<pages, rendering, impl, mode, params, known, pc, periods, solved, result, tz,
                 heap, snapshot, values, localStorage, now, ids, ui>>

\* calculation-history.tsx: handleClearAll up to the await of
\* clearCalculationHistory's remote delete
handleClearAll ==
  /\ Responsive
  /\ \E c \in Callers :
       /\ Free(c)
       /\ calls' = Begin(c, Call("handleClearAll", "clear", NoItem, "undefined",
                                 localStorage, Listed))
  /\ localStorage' = <<>>
  /\ UNCHANGED <<pages, rendering, impl, mode, params, known, pc, periods, solved, result, tz,
                 heap, snapshot, values, calculations, now, ids, ui>>

\* clearCalculationHistory once the remote delete has resolved;
\* handleClearAll goes on to loadHistory
clearCalculationHistoryCleared ==
  /\ Responsive
  /\ \E c \in Callers, cleared \in BOOLEAN :
       /\ calls[c].pc = "clear"
       /\ calculations' = IF cleared THEN <<>> ELSE calculations
       /\ calls' = [calls EXCEPT ![c].pc = "load", ![c].failed = @ \/ ~cleared,
                                 ![c].localItems = localStorage]
  /\ UNCHANGED <<pages, rendering, impl, mode, params, known, pc, periods, solved, result, tz,
                 heap, snapshot, values, localStorage, now, ids, ui>>

(***************************************************************************)
(* The missing-value form's other handlers.                                *)
(***************************************************************************)
\* what the user types into a field: the value of a number input
Typed ==
  [principal |-> {<<>>, <<"1">>, <<"-", "1">>},
   rate |-> {<<>>, <<"1", "0", "0">>, <<"-", "1">>},
   time |-> {<<>>, <<"1">>},
   finalAmount |-> {<<>>, <<"2">>, <<"2", "e", "0">>}]

\* the form is filled in before the first calculation is submitted; the
\* later submissions are of the form as it then stands
Unsubmitted == now = 0

\* handleChange: the field solved for is disabled
handleChange ==
  /\ Responsive /\ Unsubmitted
  /\ \E field \in DOMAIN Typed \ {mode} :
       \E value \in Typed[field] :
         values' = [values EXCEPT
                      ![field] = IF value = <<>> THEN <<>> ELSE cleanNumberInput(value)]
  /\ UNCHANGED <<pages, rendering, impl, mode, params, known, pc, periods, solved, result, tz,
                 heap, snapshot, localStorage, calculations, calls, now, ids, ui>>

handleFrequencyChange ==
  /\ Responsive /\ Unsubmitted
  /\ \E value \in {"annually", "monthly"} :
       values' = [values EXCEPT !.frequency = value]
  /\ UNCHANGED <<pages, rendering, impl, mode, params, known, pc, periods, solved, result, tz,
                 heap, snapshot, localStorage, calculations, calls, now, ids, ui>>

\* handleSolveForChange, and the effect that resets the form when solveFor
\* has changed
handleSolveForChange ==
  /\ Responsive /\ Unsubmitted
  /\ \E value \in {"principal", "rate", "time"} :
       /\ mode' = value
       /\ values' = IF value # mode THEN SAMPLE_VALUES
                     ELSE [values EXCEPT ![value] = <<>>]
  /\ UNCHANGED <<pages, rendering, impl, params, known, pc, periods, solved, result, tz,
                 heap, snapshot, localStorage, calculations, calls, now, ids, ui>>

resetFields ==
  /\ Responsive /\ Unsubmitted
  /\ values' = [SAMPLE_VALUES EXCEPT !.frequency = "annually"]
  /\ ui' = [ui EXCEPT !.toast = "Fields Reset"]
  /\ UNCHANGED <<pages, rendering, impl, mode, params, known, pc, periods, solved, result, tz,
                 heap, snapshot, localStorage, calculations, calls, now, ids>>

\* the page after it has loaded: no engine call made, nothing stored, one
\* handler at a time
LoadedPage ==
  /\ impl \in {"utils", "utils2"}
  /\ params = NoParams /\ known = NaN /\ pc = "ready"
  /\ periods = NaN /\ solved = NaN /\ result = NoResult
  /\ tz = 0 /\ snapshot = <<>>
  /\ localStorage = <<>>
  /\ rendering \in {"sent", "timestamptz"}
  /\ now = 0 /\ ids = 0
  /\ ui = [history |-> <<>>, toast |-> "", onCalculate |-> <<>>]

Loaded == LoadedPage /\ PagesIdle /\ calls = <<Idle>>

FormInit ==
  /\ Loaded
  /\ mode = "principal"
  /\ values = SAMPLE_VALUES
  /\ heap = <<>>
  /\ calculations = <<>>

FormNext ==
  \/ handleChange
  \/ handleFrequencyChange
  \/ handleSolveForChange
  \/ resetFields
  \/ handleCalculate
  \/ saveCalculationFetched
  \/ saveCalculationInserted

FormSpec == FormInit /\ [][FormNext]_vars

(***************************************************************************)
(* Properties of the missing-value form (FormSpec).                        *)
(***************************************************************************)
\* every known value of a solve for solveFor is supplied and is a
\* non-negative number
KnownSupplied(v, solveFor) ==
  \A field \in {"principal", "rate", "time", "finalAmount"} \ {solveFor} :
    /\ v[field] # <<>>
    /\ NonNegative(Number(v[field]))

\* C12: an inverse solve is performed only when all three known values, the
\* known final amount included, are supplied and non-negative; otherwise no
\* solver is invoked, no history record is saved and onCalculate is not
\* called
C12_SolveOnlyOnSuppliedValues ==
  /\ \A c \in Callers :
       (calls[c].op = "handleCalculate" /\ calls[c].accepted) =>
         KnownSupplied(values, calls[c].solveFor)
  /\ (pc = "recalculated" \/ localStorage # <<>> \/ ui.onCalculate # <<>>) =>
       KnownSupplied(values, mode)

(***************************************************************************)
(* The history: both forms submit, the history view loads, deletes and     *)
(* clears.  The missing-value form stands as the user has filled it in;    *)
(* the table may hold a row an earlier session has saved.                  *)
(***************************************************************************)
FilledForms ==
  {[solveFor |-> "principal",
    values |-> [principal |-> <<>>, rate |-> <<"1", "0", "0">>, time |-> <<"1">>,
                frequency |-> "annually", finalAmount |-> <<"2">>]]}

\* the calculation of the earlier session: 1 at 100% for one year
EarlierParams ==
  [principal |-> One, rate |-> NInt(100), time |-> One, timeUnit |-> "years",
   frequency |-> "annually", startDate |-> NoDate, targetAmount |-> Undefined]

\* its result as the row holds it: final amount 2, interest 1
EarlierResult(i) ==
  [finalAmount |-> NInt(2), totalInterest |-> One, yearlyBreakdown |-> <<>>,
   formula |-> IF i = "utils" THEN getFormula("annually", "none")
               ELSE getFormula2("annually"),
   returns |-> TRUE]

EarlierRow(i) ==
  InsertedRow(i, HistoryItem(EarlierParams, NullDate, EarlierResult(i),
                             NoId, toISOString(0)),
              gen_random_uuid(0))

HistoryInit ==
  /\ Loaded
  /\ \E form \in FilledForms :
       /\ mode = form.solveFor
       /\ values = form.values
  /\ heap = <<DateValue(2024, 5, 15, 18)>>
  /\ calculations \in {<<>>, <<EarlierRow(impl)>>}

HistoryNext ==
  \/ handleCalculate
  \/ handleSubmit
  \/ saveCalculationFetched
  \/ saveCalculationInserted
  \/ loadHistory
  \/ loadHistoryFetched
  \/ handleDelete
  \/ deleteCalculationFetched
  \/ deleteCalculationDeleted
  \/ handleClearAll
  \/ clearCalculationHistoryCleared

HistorySpec == HistoryInit /\ [][HistoryNext]_vars

(***************************************************************************)
(* Properties of the history (HistorySpec).                                *)
(***************************************************************************)
Submissions == {"handleCalculate", "handleSubmit"}

\* C16: when a submission that passed validation has completed,
\* getCalculationHistory returns exactly one more record than it did before
\* the submission; after a rejected submission it returns the same records
C16_OneRecordPerCalculation ==
  \A c \in Callers :
    (calls[c].op \in Submissions /\ calls[c].pc = "done") =>
      IF calls[c].accepted
      THEN Len(calls[c].after) = Len(calls[c].before) + 1
      ELSE calls[c].after = calls[c].before

\* the entries of a list that are of the calculation of item: the entries
\* with its id and the entries with its createdAt
EntriesOf(item, history) ==
  {k \in DOMAIN history :
     history[k].id = item.id \/ history[k].createdAt.t = item.createdAt.t}

\* C17: once deleteCalculation(id) of a record shown in the history has
\* completed, no getCalculationHistory result has an entry with that id or
\* with that record's createdAt, whether the fetch succeeds or not (stated
\* here for the deletions whose remote calls all succeeded)
C17_DeletedIsGone ==
  \A c \in Callers :
    (calls[c].op = "handleDelete" /\ calls[c].pc = "done" /\ ~calls[c].failed) =>
      \A fetched \in BOOLEAN :
        EntriesOf(calls[c].item,
                  getCalculationHistory(impl, localStorage, calculations, fetched)) = {}

\* C18: once clearCalculationHistory has completed, getCalculationHistory
\* returns an empty list until the next save, whatever localStorage and the
\* table held before
C18_ClearedIsEmpty ==
  \A c \in Callers :
    (calls[c].op = "handleClearAll" /\ calls[c].pc = "done") =>
      \A fetched \in BOOLEAN :
        getCalculationHistory(impl, localStorage, calculations, fetched) = <<>>

\* the fields of an entry that identify and describe its calculation
Kept(entry) ==
  <<entry.id, entry.createdAt, entry.principal, entry.rate, entry.time,
    entry.timeUnit, entry.frequency, entry.finalAmount, entry.totalInterest,
    entry.formula>>

\* the entries with the same id in both lists have the same fields, and
\* those with an id outside deleted lie in the same relative order
SameRecords(before, after, deleted) ==
  \A i \in DOMAIN before, j \in DOMAIN after :
    before[i].id = after[j].id =>
      /\ Kept(before[i]) = Kept(after[j])
      /\ \A i2 \in DOMAIN before, j2 \in DOMAIN after :
           (/\ before[i2].id = after[j2].id /\ i < i2
            /\ before[i].id \notin deleted /\ before[i2].id \notin deleted) => j < j2

\* the ids deleteCalculation has been called with
Deleting == {calls[c].item.id : c \in {k \in Callers : calls[k].op = "handleDelete"}}

\* C19: no step of a save or a delete changes a record that is listed
\* before and after it: the records still listed keep their id, createdAt,
\* principal, rate, time, timeUnit, frequency, finalAmount, totalInterest and
\* formula, and those with other ids than the one deleted keep their
\* relative order (what is listed when the fetch fails is the part of
\* Listed that localStorage holds, in the same order)
C19_RecordsNotMutated ==
  [][\/ \E c \in Callers : calls'[c].op = "handleClearAll"
     \/ \E before \in {Listed},
             after \in {getCalculationHistory(impl, localStorage',
                                              calculations', TRUE)} :
          SameRecords(before, after, Deleting)]_vars

\* a record has been deleted from a history of three, the other two
\* staying listed
C19_Witness ==
  \E c \in Callers :
    /\ calls[c].op = "handleDelete" /\ calls[c].pc = "done"
    /\ Len(calls[c].before) = 3
    /\ Len(calls[c].after) = 2

\* the fields of a record that storage is to keep; a startDate that is
\* null and one that is undefined both say that there is no start date
Stored(entry) ==
  <<entry.principal, entry.rate, entry.time, entry.timeUnit, entry.frequency,
    IF entry.startDate.k \in {"null", "undefined"} THEN NullDate ELSE entry.startDate,
    entry.finalAmount, entry.totalInterest, entry.formula, entry.createdAt.t>>

\* the row of the table that saveCalculation has inserted for item
RowOf(item) ==
  {k \in DOMAIN calculations : calculations[k].created_at.t = item.createdAt.t}

\* C20: a record that saveCalculation has written to the table is read back
\* by getCalculationHistory, localStorage being empty, with the principal,
\* rate, time, timeUnit, frequency, startDate, finalAmount, totalInterest,
\* formula and createdAt it was saved with
C20_LosslessStorage ==
  \A c \in Callers :
    (/\ calls[c].op \in Submissions /\ calls[c].pc = "done" /\ calls[c].accepted
     /\ RowOf(calls[c].item) # {}) =>
      \E history \in {getCalculationHistory(impl, <<>>, calculations, TRUE)} :
        \E k \in DOMAIN history :
          /\ history[k].createdAt.t = calls[c].item.createdAt.t
          /\ Stored(history[k]) = Stored(calls[c].item)

(***************************************************************************)
(* The views that show a calculation: the results view and the history     *)
(* view's detail panel.                                                    *)
(***************************************************************************)
\* results-display.tsx: getFrequencyNumber
getFrequencyNumberResults(frequency) ==
  CASE frequency = "annually" -> NInt(1)
    [] frequency = "semi-annually" -> NInt(2)
    [] frequency = "quarterly" -> NInt(4)
    [] frequency = "monthly" -> NInt(12)
    [] frequency = "weekly" -> NInt(52)
    [] frequency = "daily" -> NInt(365)
    [] OTHER -> NInt(1)

\* calculation-history.tsx: the n of the step-by-step calculation
StepByStepFrequency(frequency) ==
  CASE frequency = "annually" -> NInt(1)
    [] frequency = "semi-annually" -> NInt(2)
    [] frequency = "quarterly" -> NInt(4)
    [] frequency = "monthly" -> NInt(12)
    [] frequency = "weekly" -> NInt(52)
    [] frequency = "daily" -> NInt(365)
    [] OTHER -> NInt(1)

\* results-display.tsx: getStepByStepCalculation, the factor of the line
\* FV = P x Math.pow(1 + rateDecimal/nValue, nValue * time)
StepByStepBase(p) ==
  NAdd(One, NDiv(NDiv(p.rate, NInt(100)), getFrequencyNumberResults(p.frequency)))

StepByStepExponent(p) == NMul(getFrequencyNumberResults(p.frequency), p.time)

StepByStepFactor(p) == MathPow(StepByStepBase(p), StepByStepExponent(p))

\* the final amount the results view's steps stand for
StepByStepAmount(p) == NMul(p.principal, StepByStepFactor(p))

\* the engine has calculated the form's inputs, the time in years
Calculated ==
  /\ pc = "calculated" /\ impl \in {"utils", "utils2"}
  /\ params.timeUnit = "years"
  /\ params.frequency \in CompoundingFrequency2

\* C21: for every frequency of the enumerated set, continuously included,
\* the periods per year of the results view, of the history view and of the
\* vanilla clone are the engine's, and the final amount the results view and
\* the vanilla clone compute is the engine's finalAmount
C21_NoRederivation ==
  Calculated =>
    /\ getFrequencyNumberResults(params.frequency) = periods
    /\ StepByStepFrequency(params.frequency) = periods
    /\ getFrequencyNumber(params.frequency) = periods
    /\ PowFits(StepByStepBase(params), StepByStepExponent(params)) =>
         NEq(StepByStepAmount(params), result.finalAmount)
    /\ NEq(calculateCompoundInterestVanilla(params).finalAmount, result.finalAmount)

(***************************************************************************)
(* Selecting a record of the history.                                      *)
(***************************************************************************)
\* calculation-history.tsx: the params handleItemClick passes to
\* onSelectHistory; they have no timeUnit
SelectedParams(item) ==
  [principal |-> item.principal, rate |-> item.rate, time |-> item.time,
   timeUnit |-> "undefined", frequency |-> item.frequency,
   startDate |-> NoDate, targetAmount |-> Undefined]

\* the records of the history shown that the calculator form has saved
FormRecords ==
  {k \in DOMAIN ui.history :
     ui.history[k].timeUnit # "undefined" \/ ui.history[k].time_unit # "undefined"}

\* the finalAmount of calculateCompoundInterest(p), without its breakdown
FinalAmount(i, p) ==
  CASE i = "utils" ->
         Compound(p.principal, p.rate, getFrequencyValue(p.frequency),
                  TimeInYears(p.time, p.timeUnit))
    [] i = "utils2" ->
         IF p.frequency = "continuously"
         THEN Continuous(p.principal, p.rate, p.time)
         ELSE Compound(p.principal, p.rate, getFrequencyValue2(p.frequency), p.time)

\* C22: for every record the calculator form has saved, records in days
\* included, calculateCompoundInterest of the params handleItemClick passes
\* on gives the finalAmount stored in the record
C22_SelectRedisplays ==
  \A k \in FormRecords :
    NEq(FinalAmount(impl, SelectedParams(ui.history[k])), ui.history[k].finalAmount)

(***************************************************************************)
(* Overlapping saves: the calculator form is submitted again while the     *)
(* save of the submission before is still waiting for the remote table.    *)
(***************************************************************************)
OverlapInit ==
  /\ LoadedPage /\ PagesIdle
  /\ calls = <<Idle, Idle>>
  /\ mode = "principal"
  /\ values = SAMPLE_VALUES
  /\ heap = <<DateValue(2024, 5, 15, 18)>>
  /\ calculations \in {<<>>, <<EarlierRow(impl)>>}

OverlapNext ==
  \/ handleSubmit
  \/ saveCalculationFetched
  \/ saveCalculationInserted

OverlapSpec == OverlapInit /\ [][OverlapNext]_vars

\* the saves of c and d have overlapped: each has read localStorage before
\* the other has written it
Overlapping(c, d) ==
  /\ c # d
  /\ calls[c].op = "handleSubmit" /\ calls[d].op = "handleSubmit"
  /\ calls[c].accepted /\ calls[d].accepted
  /\ calls[c].pc = "done" /\ calls[d].pc = "done"
  /\ \A k \in DOMAIN calls[c].localItems : calls[c].localItems[k].id # calls[d].item.id
  /\ \A k \in DOMAIN calls[d].localItems : calls[d].localItems[k].id # calls[c].item.id

\* the local cache holds the record of the call c
Cached(c) ==
  \E k \in DOMAIN localStorage :
    localStorage[k].createdAt.t = calls[c].item.createdAt.t

\* C23: when two saveCalculation calls overlap, the local cache holds both
\* new records once both calls have completed
C23_OverlappingSavesKeepBoth ==
  \A c, d \in Callers : Overlapping(c, d) => Cached(c) /\ Cached(d)

(***************************************************************************)
(* Remote failures (HistorySpec).                                          *)
(***************************************************************************)
\* the local cache holds every entry of items but the one with the id dropped
Retained(items, dropped) ==
  \A k \in DOMAIN items :
    items[k].id # dropped =>
      \E j \in DOMAIN localStorage : localStorage[j].id = items[k].id

\* C24: when a remote call of it has failed, saveCalculation has still run
\* to its end with the new record first in the local cache and the entries
\* the cache held before kept, deleteCalculation has still run to its end
\* with the record gone from the cache and the others kept, and a
\* getCalculationHistory whose fetch fails returns the local cache as it is
C24_RemoteFailuresKeepLocal ==
  /\ getCalculationHistory(impl, localStorage, calculations, FALSE) = localStorage
  /\ \A c \in Callers :
       (calls[c].op \in Submissions /\ calls[c].accepted /\ calls[c].failed
        /\ calls[c].pc \in {"insert", "done"}) =>
         /\ localStorage # <<>>
         /\ localStorage[1] = Json(<<calls[c].item>>)[1]
         /\ Retained(calls[c].localItems, NoId)
  /\ \A c \in Callers :
       (calls[c].op = "handleDelete" /\ calls[c].failed
        /\ calls[c].pc \in {"delete", "load", "done"}) =>
         /\ \A k \in DOMAIN localStorage : localStorage[k].id # calls[c].item.id
         /\ calls[c].pc = "delete" => Retained(calls[c].localItems, calls[c].item.id)

\* a save and a delete have each run to their end with a remote call failed
C24_Witness ==
  \E c \in Callers :
    /\ calls[c].op = "handleDelete" /\ calls[c].pc = "done" /\ calls[c].failed
    /\ localStorage # <<>>
    /\ calculations # <<>>

\* no two entries of the history have the createdAt of the same instant
ListedOnce(history) ==
  \A j, k \in DOMAIN history :
    history[j].createdAt.t = history[k].createdAt.t => j = k

\* C25: a calculation is listed once: neither the list getCalculationHistory
\* returns, the fetch succeeding or failing, nor the list in localStorage has
\* two entries whose createdAt is the same instant
C25_ListedOnce ==
  /\ ListedOnce(localStorage)
  /\ \A fetched \in BOOLEAN :
       ListedOnce(getCalculationHistory(impl, localStorage, calculations, fetched))

(***************************************************************************)
(* The calculator form followed edit by edit (calculator-form.tsx):        *)
(* calculatorForm holds the params state, a field being '' or the number   *)
(* parseFloat has made of the input's text.  'Include Start Date' stays    *)
(* unchecked and the time unit's select is left alone.                     *)
(***************************************************************************)
\* parseFloat(value) of the value of a number input
parseFloat(value) == IF value = <<>> THEN NaN ELSE Number(value)

\* useState's default: the params before any edit
InitialParams ==
  [principal |-> EmptyString, rate |-> EmptyString, time |-> EmptyString,
   timeUnit |-> "undefined", frequency |-> "annually", startDate |-> NoDate,
   targetAmount |-> Undefined]

\* the 'Reset All Fields' button's params
ResetParams == [InitialParams EXCEPT !.frequency = ""]

\* what the user types into a field of the calculator form
TypedNumbers ==
  [principal |-> {<<>>, <<"0">>, <<"1">>},
   rate |-> {<<>>, <<"1", "0", "0">>, <<"1", "0", "1">>},
   time |-> {<<>>, <<"1">>, <<"1", ".", "5">>}]

\* calculator-form.tsx: handleChange of a numeric field
CalculatorForm_handleChange ==
  /\ \E name \in DOMAIN TypedNumbers :
       \E value \in TypedNumbers[name] :
         calculatorForm' =
           <<[calculatorForm[1] EXCEPT
                ![name] = IF value = <<>> THEN EmptyString ELSE parseFloat(value)]>>
  /\ UNCHANGED <<display, vanilla, rendering, impl, mode, params, known, pc, periods,
                 solved, result, tz, heap, snapshot, values, localStorage,
                 calculations, calls, now, ids, ui>>

\* calculator-form.tsx: handleFrequencyChange, the value being one of the
\* select's items
CalculatorForm_handleFrequencyChange ==
  /\ \E value \in {"annually", "monthly"} :
       calculatorForm' = <<[calculatorForm[1] EXCEPT !.frequency = value]>>
  /\ UNCHANGED <<display, vanilla, rendering, impl, mode, params, known, pc, periods,
                 solved, result, tz, heap, snapshot, values, localStorage,
                 calculations, calls, now, ids, ui>>

\* calculator-form.tsx: onClick of 'Reset All Fields'
CalculatorForm_onClick ==
  /\ calculatorForm' = <<ResetParams>>
  /\ ui' = [ui EXCEPT !.toast = "Fields Reset"]
  /\ UNCHANGED <<display, vanilla, rendering, impl, mode, params, known, pc, periods,
                 solved, result, tz, heap, snapshot, values, localStorage,
                 calculations, calls, now, ids>>

CalculatorFormInit ==
  /\ LoadedPage
  /\ calls = <<Idle>>
  /\ display = <<>> /\ vanilla = <<>>
  /\ calculatorForm = <<InitialParams>>
  /\ mode = "principal"
  /\ values = SAMPLE_VALUES
  /\ heap = <<>>
  /\ calculations = <<>>

CalculatorFormNext ==
  \/ CalculatorForm_handleChange
  \/ CalculatorForm_handleFrequencyChange
  \/ CalculatorForm_onClick
  \/ handleSubmit
  \/ saveCalculationFetched
  \/ saveCalculationInserted

CalculatorFormSpec == CalculatorFormInit /\ [][CalculatorFormNext]_vars

\* the params of a record are valid
ValidRecord(item) ==
  /\ Positive(item.principal)
  /\ Positive(item.rate) /\ NLeq(item.rate, NInt(100))
  /\ Positive(item.time) /\ IsInteger(item.time)
  /\ item.frequency \in CompoundingFrequency2

\* C26: every record the calculator form has saved, in localStorage and in
\* the table, has principal > 0, 0 < rate <= 100, time a positive integer
\* and frequency one of the enumerated compounding frequencies
C26_SavedRecordsValid ==
  /\ \A k \in DOMAIN localStorage : ValidRecord(localStorage[k])
  /\ \A k \in DOMAIN calculations : ValidRecord(calculations[k])

(***************************************************************************)
(* ResultsDisplay (results-display.tsx): display holds the component's     *)
(* state; the effect runs once for every params prop the page hands down.  *)
(***************************************************************************)
\* the component as it is mounted: useState(null), useState(false)
Mounted ==
  [result |-> <<>>, isValid |-> FALSE, displayParams |-> <<>>, isLoading |-> FALSE]

\* the params props: numbers that pass the effect's test and numbers that
\* do not, a frequency chosen or ''
DisplayProps ==
  [principal : {NaN, NNeg(One), Zero, One, NInt(2)}, rate : {NInt(100), NNeg(One)},
   time : {One, NInt(2)}, timeUnit : {"years"}, frequency : {"annually", ""},
   startDate : {NoDate}, targetAmount : {Undefined}]

\* typeof x === 'number' && !isNaN(x) && x >= 0
IsValidNumber(x) == ~IsNaN(x) /\ NGeq(x, Zero)

\* the effect's valid
ValidProps(p) ==
  /\ IsValidNumber(p.principal)
  /\ IsValidNumber(p.rate)
  /\ IsValidNumber(p.time)
  /\ p.frequency # ""

\* results-display.tsx: the effect on [params]
ResultsDisplay_useEffect ==
  /\ \E p \in DisplayProps :
       display' =
         <<[result |-> IF ValidProps(p) THEN <<Calculate(impl, p)>>
                       ELSE display[1].result,
            isValid |-> ValidProps(p),
            displayParams |-> <<p>>,
            isLoading |-> FALSE]>>
  /\ UNCHANGED <<calculatorForm, vanilla, store, impl, mode, params, known, pc,
                 periods, solved, result, tz, heap, snapshot>>

\* the component renders its result: if (!result || !displayParams) return null
Rendered == display[1].result # <<>> /\ display[1].displayParams # <<>>

DisplayInit ==
  /\ LoadedPage
  /\ calls = <<Idle>>
  /\ display = <<Mounted>>
  /\ calculatorForm = <<>> /\ vanilla = <<>>
  /\ mode = "principal"
  /\ values = SAMPLE_VALUES
  /\ heap = <<>>
  /\ calculations = <<>>

DisplayNext == ResultsDisplay_useEffect

DisplaySpec == DisplayInit /\ [][DisplayNext]_vars

\* C27: whenever the component renders, the result it holds is the result
\* of calculateCompoundInterest for the params it shows
C27_ResultOfParamsShown ==
  Rendered =>
    display[1].result[1] = Calculate(impl, display[1].displayParams[1])

(***************************************************************************)
(* Records of the missing-value form (FormSpec).                           *)
(***************************************************************************)
\* the records the missing-value form has handed to saveCalculation
SolveRecords ==
  {calls[c].item : c \in {k \in Callers : /\ calls[k].op = "handleCalculate"
                                            /\ calls[k].accepted
                                            /\ calls[k].pc # "hung"}}

\* a value that is a number when read back from the history
IsStoredNumber(x) == JsonNumber(x).k \in {"fin", "ln"}

\* C28: a record saved by a missing-value solve has numbers as principal,
\* rate and time, its finalAmount is the final amount of
\* calculateCompoundInterest for them and is the final amount the user
\* entered, and its totalInterest is finalAmount - principal
C28_SolveRecordsConsistent ==
  \A item \in SolveRecords :
    /\ IsStoredNumber(item.principal)
    /\ IsStoredNumber(item.rate)
    /\ IsStoredNumber(item.time)
    /\ NEq(item.finalAmount, FinalAmount(impl, item))
    /\ NEq(item.finalAmount, item.targetAmount)
    /\ NEq(item.totalInterest, NSub(item.finalAmount, item.principal))

(***************************************************************************)
(* The vanilla clone's page (vanilla-clone/main.js): vanilla holds the     *)
(* item 'calcHistory' of its localStorage, the list renderHistory has      *)
(* rendered, the form's fields as the numbers +value gives, the error      *)
(* line and the results section.  The start date is left out.  An entry    *)
(* carries the number of the handleCalculation call that saved it, which   *)
(* tells equal entries apart.                                              *)
(***************************************************************************)
HistoryLimit == 20

\* calculations and deletions of one run
MaxCalculations == 22
MaxDeletes == 1

\* { ...params, ...result }
VanillaEntry(p, r, no) ==
  [principal |-> p.principal, rate |-> p.rate, time |-> p.time,
   frequency |-> p.frequency, startDate |-> Null,
   finalAmount |-> r.finalAmount, totalInterest |-> r.totalInterest,
   yearlyBreakdown |-> r.yearlyBreakdown, no |-> no]

\* JSON.parse(JSON.stringify(history)) of the clone's history
JsonVanilla(history) ==
  [k \in DOMAIN history |->
     [history[k] EXCEPT
        !.principal = JsonNumber(@), !.rate = JsonNumber(@), !.time = JsonNumber(@),
        !.finalAmount = JsonNumber(@), !.totalInterest = JsonNumber(@),
        !.yearlyBreakdown = [j \in DOMAIN @ |-> JsonRow(@[j])]]]

\* main.js: getHistory
getHistory == vanilla[1].calcHistory

\* main.js: saveToHistory, the value it stores
saveToHistory(entry) ==
  LET history == <<entry>> \o getHistory
  IN  JsonVanilla(IF Len(history) > HistoryLimit
                  THEN SubSeq(history, 1, HistoryLimit)
                  ELSE history)

\* a splice off by one: the entry after idx is removed
spliceAfter(history, idx) ==
  [k \in 1..(Len(history) - 1) |->
     IF k <= idx + 1 THEN history[k] ELSE history[k + 1]]

\* history.splice(idx, 1), idx counted from 0
splice(history, idx) ==
  [k \in 1..(Len(history) - 1) |-> IF k <= idx THEN history[k] ELSE history[k + 1]]

\* main.js: deleteHistoryItem, the value it stores
deleteHistoryItem(idx) ==
  IF idx < Len(getHistory) THEN JsonVanilla(splice(getHistory, idx)) ELSE getHistory

\* +value of a number read back from the history
UnaryPlus(x) == IF x = Null THEN Zero ELSE x

VanillaParams(principal, rate, time, frequency) ==
  [principal |-> principal, rate |-> rate, time |-> time, timeUnit |-> "years",
   frequency |-> frequency, startDate |-> NoDate, targetAmount |-> Undefined]

\* main.js: handleCalculation; renderHistory re-reads the stored history
handleCalculation(op, form, formError, p) ==
  \E r \in {calculateCompoundInterestVanilla(p)} :
    \E stored \in {saveToHistory(VanillaEntry(p, r, vanilla[1].saved + 1))} :
      vanilla' = <<[calcHistory |-> stored, listed |-> stored, form |-> form,
                    formError |-> formError,
                    results |-> <<[params |-> p, result |-> r]>>,
                    saved |-> vanilla[1].saved + 1,
                    deleted |-> vanilla[1].deleted,
                    op |-> op, idx |-> 0]>>

\* what the user types into the clone's form: values the inputs' min and
\* step let the browser submit
VanillaTyped ==
  [principal : {<<"0">>, <<"1", "0", "0">>}, rate : {<<"1", "0", "0">>},
   time : {<<"1">>}, frequency : {"annually"}]

\* main.js: the submit listener of calc-form
VanillaSubmit ==
  /\ vanilla[1].saved < MaxCalculations
  /\ \E typed \in VanillaTyped :
       LET form == [principal |-> Number(typed.principal), rate |-> Number(typed.rate),
                    time |-> Number(typed.time), frequency |-> typed.frequency]
           error == CASE NLeq(form.principal, Zero) -> "Principal must be greater than 0."
                      [] NLeq(form.rate, Zero) -> "Interest rate must be greater than 0."
                      [] NLeq(form.time, Zero) \/ ~IsInteger(form.time) ->
                           "Time period must be a positive integer."
                      [] OTHER -> ""
       IN  IF error # ""
           THEN vanilla' = <<[vanilla[1] EXCEPT !.form = form, !.formError = error,
                                                !.op = "submit", !.idx = 0]>>
           ELSE handleCalculation("submit", form, "",
                                  VanillaParams(form.principal, form.rate, form.time,
                                                form.frequency))
  /\ UNCHANGED <<display, calculatorForm, store, impl, mode, params, known, pc,
                 periods, solved, result, tz, heap, snapshot>>

\* main.js: historySelectHandler, called with the entry of the rendered
\* list that was clicked
historySelectHandler ==
  /\ vanilla[1].saved < MaxCalculations
  /\ \E k \in DOMAIN vanilla[1].listed :
       LET item == vanilla[1].listed[k]
       IN  handleCalculation("historySelectHandler",
                             [principal |-> UnaryPlus(item.principal),
                              rate |-> UnaryPlus(item.rate),
                              time |-> UnaryPlus(item.time),
                              frequency |-> item.frequency],
                             vanilla[1].formError,
                             VanillaParams(UnaryPlus(item.principal),
                                           UnaryPlus(item.rate),
                                           UnaryPlus(item.time), item.frequency))
  /\ UNCHANGED <<display, calculatorForm, store, impl, mode, params, known, pc,
                 periods, solved, result, tz, heap, snapshot>>

\* main.js: onclick of an entry's delete button
VanillaDelete ==
  /\ vanilla[1].deleted < MaxDeletes
  /\ \E k \in DOMAIN vanilla[1].listed :
       \E stored \in {deleteHistoryItem(k - 1)} :
         vanilla' = <<[vanilla[1] EXCEPT !.calcHistory = stored, !.listed = stored,
                                          !.deleted = @ + 1,
                                          !.op = "deleteHistoryItem", !.idx = k - 1]>>
  /\ UNCHANGED <<display, calculatorForm, store, impl, mode, params, known, pc,
                 periods, solved, result, tz, heap, snapshot>>

\* main.js: onclick of 'Clear All', the user confirming or not
VanillaClear ==
  /\ vanilla[1].listed # <<>>
  /\ \E confirmed \in BOOLEAN :
       vanilla' = <<IF confirmed
                    THEN [vanilla[1] EXCEPT !.calcHistory = <<>>, !.listed = <<>>,
                                            !.op = "clearHistory", !.idx = 0]
                    ELSE vanilla[1]>>
  /\ UNCHANGED <<display, calculatorForm, store, impl, mode, params, known, pc,
                 periods, solved, result, tz, heap, snapshot>>

\* main.js: the click listener of reset-btn
VanillaReset ==
  /\ vanilla' = <<[vanilla[1] EXCEPT
                     !.form = [principal |-> Zero, rate |-> Zero, time |-> Zero,
                               frequency |-> "annually"],
                     !.formError = "", !.op = "reset", !.idx = 0]>>
  /\ UNCHANGED <<display, calculatorForm, store, impl, mode, params, known, pc,
                 periods, solved, result, tz, heap, snapshot>>

\* the clone's page after DOMContentLoaded, nothing stored
VanillaInit ==
  /\ impl = "vanilla"
  /\ pc = "ready" /\ mode = "forward" /\ known = NaN /\ params = NoParams
  /\ periods = NaN /\ solved = NaN /\ result = NoResult
  /\ tz = 0 /\ heap = <<>> /\ snapshot = <<>>
  /\ StoreIdle
  /\ display = <<>> /\ calculatorForm = <<>>
  /\ vanilla = <<[calcHistory |-> <<>>, listed |-> <<>>,
                  form |-> [principal |-> Zero, rate |-> Zero, time |-> Zero,
                            frequency |-> "annually"],
                  formError |-> "", results |-> <<>>, saved |-> 0, deleted |-> 0,
                  op |-> "DOMContentLoaded", idx |-> 0]>>

VanillaNext ==
  \/ VanillaSubmit
  \/ historySelectHandler
  \/ VanillaDelete
  \/ VanillaClear
  \/ VanillaReset

VanillaSpec == VanillaInit /\ [][VanillaNext]_vars

(***************************************************************************)
(* Properties of the vanilla clone's history (VanillaSpec).                *)
(***************************************************************************)
\* at most 20 entries, a later saved entry before an earlier one
NewestFirst(history) ==
  /\ Len(history) <= HistoryLimit
  /\ \A j, k \in DOMAIN history : j < k => history[j].no > history[k].no

\* a step that has saved an entry
Saved == vanilla'[1].saved = vanilla[1].saved + 1

\* a step of deleteHistoryItem
Deleted == vanilla'[1].op = "deleteHistoryItem" /\ vanilla'[1].deleted = vanilla[1].deleted + 1

\* the step has put the new entry at index 0 and kept the entries before it
\* in their order, dropping those beyond the 20th
SavedFirst ==
  LET before == vanilla[1].calcHistory
      after == vanilla'[1].calcHistory
  IN  /\ after[1].no = vanilla'[1].saved
      /\ Len(after) = IF Len(before) < HistoryLimit THEN Len(before) + 1
                      ELSE HistoryLimit
      /\ \A k \in 2..Len(after) : after[k] = before[k - 1]

\* the step has removed the entry at idx and no other
DeletedAt ==
  LET before == vanilla[1].calcHistory
      after == vanilla'[1].calcHistory
      idx == vanilla'[1].idx + 1
  IN  /\ Len(after) = Len(before) - 1
      /\ \A k \in DOMAIN after : after[k] = IF k < idx THEN before[k] ELSE before[k + 1]

\* C29: the stored history holds at most 20 entries, newest first; a save
\* puts the new entry at index 0, keeps the previous entries in order and
\* drops only the entries beyond 20; deleteHistoryItem(idx) removes exactly
\* the entry at idx
C29_NewestFirstAtMost20 ==
  /\ []NewestFirst(vanilla[1].calcHistory)
  /\ [][(Saved => SavedFirst) /\ (Deleted => DeletedAt)]_vars

\* a delete in the middle of the list, and a save onto a full list
C29_Witness ==
  /\ vanilla[1].saved > HistoryLimit + 1
  /\ vanilla[1].deleted = 1
  /\ Len(vanilla[1].calcHistory) = HistoryLimit
  /\ vanilla[1].calcHistory[HistoryLimit].no > 2

\* C30: selecting an entry of the history leaves the stored history
\* unchanged: no entry is added, removed or reordered
C30_SelectLeavesHistory ==
  [][vanilla'[1].op = "historySelectHandler" =>
       vanilla'[1].calcHistory = vanilla[1].calcHistory]_vars

=============================================================================
